---- MODULE Spec2Model ----
(***************************************************************************)
(* file-deduplicator: the duplicate-detection engine of src/main.go.       *)
(*                                                                         *)
(* Strings are sequences of one-character strings, so that prefix,        *)
(* substring and per-position comparisons are computed, not assumed:      *)
(* a path "d/a" is <<"d","/","a">>, the empty string is <<>>.              *)
(* A float64 similarity is kept exactly as a count of 1/64ths.            *)
(***************************************************************************)
EXTENDS Integers, Sequences, FiniteSets, TLC

VARIABLES
    cfg,            \* the global Config (main.go:95-97), set by flag.Parse
    pc,             \* main's position: "collect","errors","find","report","process","loop","done","fatal"
    fileHashes,     \* []FileHash returned by computeHashes / given to findDuplicates
    duplicates,     \* []DuplicateGroup returned by findDuplicates
    reportedKeep,   \* per group, the index reportDuplicates printed as KEEP
    disk,           \* the paths that exist in the file system
    handed,         \* the paths processDuplicates handed to os.Remove / os.Rename, in order
    undoLog,        \* processDuplicates' local undoLog
    savedUndo,      \* content of the undo file written by saveUndoLog (<<>> if never written)
    gi,             \* processDuplicates: position of "for _, group := range duplicates" (from 1)
    mi,             \* processDuplicates: position i of "for i, fh := range group.Files" (from 0)
    filesToHash,    \* computeHashes: its argument files, the paths to hash
    sent,           \* computeHashes: how many paths the feeding goroutine has sent
    fileChan,       \* computeHashes: fileChan's buffer
    fileChanClosed, \* computeHashes: close(fileChan) has run
    resultChan,     \* computeHashes: resultChan's buffer
    errorChan,      \* computeHashes: errorChan's buffer
    resultClosed,   \* computeHashes: close(resultChan) has run
    errorClosed,    \* computeHashes: close(errorChan) has run
    wg,             \* computeHashes: the WaitGroup's counter
    wpc,            \* per worker: "recv", "hash", "progress" or "exit"
    wfile,          \* per worker: the path received from fileChan
    hasher,         \* per worker: the bytes written to the hash.Hash it holds
    outcome,        \* per path whose hashFile call has returned: "ok" or "err"
    phashErr,       \* the paths for which computePerceptualHash returned an error
    errLog,         \* the errors main received from errorChan and logged, as paths
    hashedCount,    \* computeHashes: hashedCount, written under hashedMutex
    lastProgressUpdate, \* computeHashes: who wrote lastProgressUpdate last (0: computeHashes)
    call,           \* the function called on its own, with its arguments ([fn |-> "none"]: none)
    ret,            \* what that call returned ([fn |-> "none"] before it returns)
    model           \* the TUI's Model (tui/tui.go:127-141), as tui.Run holds it

procVars == <<disk, handed, undoLog, savedUndo, gi, mi>>
chanVars == <<fileChan, fileChanClosed, resultChan, errorChan, resultClosed, errorClosed>>
hashVars == <<filesToHash, sent, chanVars, wg, wpc, wfile, hasher, outcome, phashErr,
              errLog, hashedCount, lastProgressUpdate>>
\* what stands outside the pipeline and is left alone by it
pureVars == <<call, ret, model>>
vars == <<cfg, pc, fileHashes, duplicates, reportedKeep, procVars, hashVars, pureVars>>

(***************************************************************************)
(* Bounds of the model.                                                    *)
(***************************************************************************)
MaxFiles == 4        \* longest list of hashed files given to findDuplicates
FpLen == 2           \* length of a perceptual fingerprint (64 in the program)
MaxThreshold == 2    \* largest similarity threshold tried
MaxMembers == 3      \* largest group given to selectFileToKeep on its own
MaxStamp == 3        \* sizes and modification times range over 1..MaxStamp
MaxRunFiles == 4     \* longest list of hashed files a whole run of main is given
MaxPaths == 2        \* longest list of paths given to computeHashes
MaxWorkers == 2      \* largest cfg.Workers
MaxHashLen == 4      \* longest string given to hammingDistance on its own
MaxStep == 4         \* widest bright band / steepest ramp of the sample images

(***************************************************************************)
(* Program constants.                                                      *)
(***************************************************************************)
SimDenom == 64       \* the divisor 64.0 of the similarity formula
HashSide == 8        \* rows, and comparisons per row, of the three perceptual hashes

Range(s) == {s[i] : i \in DOMAIN s}
NoString == <<>>

Digests == {<<"a">>, <<"b">>}
Bits == {"0", "1"}
AllFingerprints == [1..FpLen -> Bits]
\* the fingerprints given to the grouping engine: 1^k 0^(FpLen-k), which are at
\* every distance 0..FpLen from one another
Fingerprints == {[i \in 1..FpLen |-> IF i <= k THEN "1" ELSE "0"] : k \in 0..FpLen}
\* the path of the i-th scanned file: a, b.png, d/b.png, d/a, d/d/a, d/d/b.png,
\* ...; pairwise distinct, as filepath.Walk yields them
RECURSIVE DirPrefix(_)
DirPrefix(depth) == IF depth = 0 THEN <<>> ELSE <<"d", "/">> \o DirPrefix(depth - 1)
PathOf(i) ==
    DirPrefix((i - 1) \div 2)
        \o (IF i % 4 \in {0, 1} THEN <<"a">> ELSE <<"b", ".", "p", "n", "g">>)

(***************************************************************************)
(* hammingDistance (perceptual hashing file)                               *)
(***************************************************************************)
RECURSIVE CountDiff(_, _, _)
CountDiff(hash1, hash2, i) ==
    IF i > Len(hash1) THEN 0
    ELSE (IF hash1[i] # hash2[i] THEN 1 ELSE 0) + CountDiff(hash1, hash2, i + 1)

\* hammingDistance as it would be if it counted only the bits set in hash1 alone
hammingDistanceOneSided(hash1, hash2) ==
    IF Len(hash1) # Len(hash2) THEN -1
    ELSE Cardinality({i \in 1..Len(hash1) : hash1[i] = "1" /\ hash2[i] = "0"})

hammingDistance(hash1, hash2) ==
    IF Len(hash1) # Len(hash2) THEN -1
    ELSE CountDiff(hash1, hash2, 1)

(***************************************************************************)
(* findDuplicates / findPerceptualDuplicates                               *)
(***************************************************************************)
\* BuildHashMap as it would be if the last file of a digest replaced the rest
RECURSIVE BuildHashMapKeepTwo(_, _)
BuildHashMapKeepTwo(files, n) ==
    IF n = 0 THEN [h \in {} |-> <<>>]
    ELSE LET m == BuildHashMapKeepTwo(files, n - 1)
             fh == files[n]
             old == IF fh.Hash \in DOMAIN m THEN m[fh.Hash] ELSE <<>>
         IN [h \in (DOMAIN m) \cup {fh.Hash} |->
                IF h = fh.Hash
                THEN (IF Len(old) >= 2 THEN <<old[1], fh>> ELSE Append(old, fh))
                ELSE m[h]]

\* the loop "hashMap[fh.Hash] = append(hashMap[fh.Hash], fh)" over the first n files
RECURSIVE BuildHashMap(_, _)
BuildHashMap(files, n) ==
    IF n = 0 THEN [h \in {} |-> <<>>]
    ELSE LET m == BuildHashMap(files, n - 1)
             fh == files[n]
             old == IF fh.Hash \in DOMAIN m THEN m[fh.Hash] ELSE <<>>
         IN [h \in (DOMAIN m) \cup {fh.Hash} |->
                IF h = fh.Hash THEN Append(old, fh) ELSE m[h]]

ExactSimilarity == 100 * SimDenom

\* the group appended for one map entry
ExactGroup(hash, files) ==
    [Hash |-> hash, Size |-> files[1].Size, Files |-> files, Similarity |-> ExactSimilarity]

\* DupKeys as it would be with the test "len(files) > 0"
DupKeysAny(hashMap) == {h \in DOMAIN hashMap : Len(hashMap[h]) > 0}

\* the keys whose entry passes "len(files) > 1"
DupKeys(hashMap) == {h \in DOMAIN hashMap : Len(hashMap[h]) > 1}

\* every order in which "for hash, files := range hashMap" may visit the keys in K
RECURSIVE KeyOrders(_)
KeyOrders(K) ==
    IF K = {} THEN {<<>>}
    ELSE UNION {{<<k>> \o rest : rest \in KeyOrders(K \ {k})} : k \in K}

ExactGroupsIn(hashMap, order) ==
    [i \in 1..Len(order) |-> ExactGroup(order[i], hashMap[order[i]])]

\* the split into imageFiles / regularFiles
ImageFiles(files) == SelectSeq(files, LAMBDA fh : fh.PHash # NoString)
RegularFiles(files) == SelectSeq(files, LAMBDA fh : fh.PHash = NoString)

\* the score computed for a perceptual group, in 1/64ths
PerceptualSimilarity(threshold) ==
    LET avg == 100 * SimDenom - threshold * 100
    IN IF avg < 50 * SimDenom THEN (50 + threshold) * SimDenom ELSE avg

\* InnerSweep as it would be if an added file were not marked visited
RECURSIVE InnerSweepNoMark(_, _, _, _, _, _)
InnerSweepNoMark(imageFiles, i, j, group, visited, threshold) ==
    IF j > Len(imageFiles) THEN [group |-> group, visited |-> visited]
    ELSE IF j \in visited
         THEN InnerSweepNoMark(imageFiles, i, j + 1, group, visited, threshold)
         ELSE LET dist == hammingDistance(imageFiles[i].PHash, imageFiles[j].PHash)
              IN IF dist >= 0 /\ dist <= threshold
                 THEN InnerSweepNoMark(imageFiles, i, j + 1, Append(group, imageFiles[j]),
                                       visited, threshold)
                 ELSE InnerSweepNoMark(imageFiles, i, j + 1, group, visited, threshold)

\* InnerSweep as it would be if a candidate were compared with the member added last
RECURSIVE InnerSweepChained(_, _, _, _, _, _)
InnerSweepChained(imageFiles, i, j, group, visited, threshold) ==
    IF j > Len(imageFiles) THEN [group |-> group, visited |-> visited]
    ELSE IF j \in visited
         THEN InnerSweepChained(imageFiles, i, j + 1, group, visited, threshold)
         ELSE LET dist == hammingDistance(group[Len(group)].PHash, imageFiles[j].PHash)
              IN IF dist >= 0 /\ dist <= threshold
                 THEN InnerSweepChained(imageFiles, i, j + 1, Append(group, imageFiles[j]),
                                        visited \cup {j}, threshold)
                 ELSE InnerSweepChained(imageFiles, i, j + 1, group, visited, threshold)

\* the inner loop "for j := i + 1; j < len(imageFiles); j++"
RECURSIVE InnerSweep(_, _, _, _, _, _)
InnerSweep(imageFiles, i, j, group, visited, threshold) ==
    IF j > Len(imageFiles) THEN [group |-> group, visited |-> visited]
    ELSE IF j \in visited
         THEN InnerSweep(imageFiles, i, j + 1, group, visited, threshold)
         ELSE LET dist == hammingDistance(imageFiles[i].PHash, imageFiles[j].PHash)
              IN IF dist >= 0 /\ dist <= threshold
                 THEN InnerSweep(imageFiles, i, j + 1, Append(group, imageFiles[j]),
                                 visited \cup {j}, threshold)
                 ELSE InnerSweep(imageFiles, i, j + 1, group, visited, threshold)

\* OuterSweep as it would be without "if visited[i] { continue }"
RECURSIVE OuterSweepEverySeed(_, _, _, _, _)
OuterSweepEverySeed(imageFiles, i, visited, dups, threshold) ==
    IF i > Len(imageFiles) THEN dups
    ELSE LET r == InnerSweep(imageFiles, i, i + 1, <<imageFiles[i]>>,
                             visited \cup {i}, threshold)
         IN IF Len(r.group) > 1
            THEN OuterSweepEverySeed(imageFiles, i + 1, r.visited,
                     Append(dups, [Hash |-> imageFiles[i].PHash,
                                   Size |-> imageFiles[i].Size,
                                   Files |-> r.group,
                                   Similarity |-> PerceptualSimilarity(threshold)]),
                     threshold)
            ELSE OuterSweepEverySeed(imageFiles, i + 1, r.visited, dups, threshold)

\* the outer loop "for i := 0; i < len(imageFiles); i++", appending to dups
RECURSIVE OuterSweep(_, _, _, _, _)
OuterSweep(imageFiles, i, visited, dups, threshold) ==
    IF i > Len(imageFiles) THEN dups
    ELSE IF i \in visited
         THEN OuterSweep(imageFiles, i + 1, visited, dups, threshold)
         ELSE LET r == InnerSweep(imageFiles, i, i + 1, <<imageFiles[i]>>,
                                  visited \cup {i}, threshold)
              IN IF Len(r.group) > 1
                 THEN OuterSweep(imageFiles, i + 1, r.visited,
                          Append(dups, [Hash |-> imageFiles[i].PHash,
                                        Size |-> imageFiles[i].Size,
                                        Files |-> r.group,
                                        Similarity |-> PerceptualSimilarity(threshold)]),
                          threshold)
                 ELSE OuterSweep(imageFiles, i + 1, r.visited, dups, threshold)

\* the results findPerceptualDuplicates may return (one per map iteration order)
findPerceptualDuplicates(files, c) ==
    LET hashMap == BuildHashMap(RegularFiles(files), Len(RegularFiles(files)))
    IN {OuterSweep(ImageFiles(files), 1, {}, ExactGroupsIn(hashMap, order),
                   c.SimilarityThreshold) : order \in KeyOrders(DupKeys(hashMap))}

\* the results findDuplicates may return (one per map iteration order)
findDuplicates(files, c) ==
    IF c.PerceptualMode THEN findPerceptualDuplicates(files, c)
    ELSE LET hashMap == BuildHashMap(files, Len(files))
         IN {ExactGroupsIn(hashMap, order) : order \in KeyOrders(DupKeys(hashMap))}

(***************************************************************************)
(* strings and paths: the library functions used                           *)
(***************************************************************************)
HasPrefix(s, prefix) ==
    Len(s) >= Len(prefix) /\ SubSeq(s, 1, Len(prefix)) = prefix
TrimPrefix(s, prefix) ==
    IF HasPrefix(s, prefix) THEN SubSeq(s, Len(prefix) + 1, Len(s)) ELSE s
Contains(s, substr) ==
    \E k \in 0..(Len(s) - Len(substr)) : SubSeq(s, k + 1, k + Len(substr)) = substr
LowerOf(ch) ==
    CASE ch = "O" -> "o" [] ch = "L" -> "l" [] ch = "D" -> "d" [] ch = "E" -> "e"
      [] ch = "S" -> "s" [] ch = "T" -> "t" [] ch = "P" -> "p" [] ch = "A" -> "a"
      [] ch = "H" -> "h" [] ch = "N" -> "n" [] ch = "G" -> "g" [] ch = "M" -> "m"
      [] ch = "C" -> "c" [] ch = "I" -> "i" [] ch = "F" -> "f" [] ch = "R" -> "r"
      [] ch = "V" -> "v" [] ch = "U" -> "u" [] OTHER -> ch
ToLower(s) == [i \in 1..Len(s) |-> LowerOf(s[i])]

\* filepath.Ext: from the last dot of the last element on, "" if it has none
RECURSIVE Ext(_)
Ext(path) ==
    IF path = <<>> \/ path[Len(path)] = "/" THEN <<>>
    ELSE IF path[Len(path)] = "." THEN <<".">>
    ELSE LET e == Ext(SubSeq(path, 1, Len(path) - 1))
         IN IF e = <<>> THEN <<>> ELSE Append(e, path[Len(path)])

\* strings.TrimSuffix
TrimSuffix(str, suffix) ==
    IF Len(str) >= Len(suffix) /\ SubSeq(str, Len(str) - Len(suffix) + 1, Len(str)) = suffix
    THEN SubSeq(str, 1, Len(str) - Len(suffix))
    ELSE str

(***************************************************************************)
(* isImageFile (perceptual hashing file)                                   *)
(***************************************************************************)
ImageExts ==
    {<<".","j","p","g">>, <<".","j","p","e","g">>, <<".","p","n","g">>,
     <<".","g","i","f">>, <<".","w","e","b","p">>}

isImageFile(path) == ToLower(Ext(path)) \in ImageExts

\* the fingerprint computePerceptualHash gives the decodable images of the model
SampleFingerprint == [i \in 1..FpLen |-> "0"]

(***************************************************************************)
(* selectFileToKeep; indices are Go's, counted from 0                      *)
(***************************************************************************)
PathPrefix == <<"p","a","t","h",":">>
Oldest == <<"o","l","d","e","s","t">>
Newest == <<"n","e","w","e","s","t">>
Largest == <<"l","a","r","g","e","s","t">>
Smallest == <<"s","m","a","l","l","e","s","t">>

\* FirstPathMatch as it would be if a match anywhere made the loop return the
\* index it started at
FirstPathMatchSeen(files, i, targetPath) ==
    IF \E k \in (i + 1)..Len(files) : Contains(files[k].Path, targetPath) THEN i ELSE -1

\* the loop of the path: branch, from index i on; -1 if it falls through
RECURSIVE FirstPathMatch(_, _, _)
FirstPathMatch(files, i, targetPath) ==
    IF i >= Len(files) THEN -1
    ELSE IF Contains(files[i + 1].Path, targetPath) THEN i
    ELSE FirstPathMatch(files, i + 1, targetPath)

\* Replaces as it would be with <= and >= in place of Before/After/</>
ReplacesOrTies(criteria, fh, current) ==
    CASE criteria = Oldest -> fh.ModTime <= current.ModTime
      [] criteria = Newest -> fh.ModTime >= current.ModTime
      [] criteria = Largest -> fh.Size >= current.Size
      [] criteria = Smallest -> fh.Size <= current.Size

\* the test under which a loop replaces its candidate index
Replaces(criteria, fh, current) ==
    CASE criteria = Oldest -> fh.ModTime < current.ModTime
      [] criteria = Newest -> fh.ModTime > current.ModTime
      [] criteria = Largest -> fh.Size > current.Size
      [] criteria = Smallest -> fh.Size < current.Size

\* "for i, fh := range files { if <test> { idx = i } }" from index i on
RECURSIVE KeepLoop(_, _, _, _)
KeepLoop(files, i, idx, criteria) ==
    IF i >= Len(files) THEN idx
    ELSE KeepLoop(files, i + 1,
                  IF Replaces(criteria, files[i + 1], files[idx + 1]) THEN i ELSE idx,
                  criteria)

\* selectFileToKeep as it would be if the path: branch fell back to the last member
selectFileToKeepLastFallback(group, c) ==
    LET files == group.Files
    IN IF HasPrefix(c.KeepCriteria, PathPrefix)
       THEN LET m == FirstPathMatch(files, 0, TrimPrefix(c.KeepCriteria, PathPrefix))
            IN IF m >= 0 THEN m ELSE Len(files) - 1
       ELSE IF ToLower(c.KeepCriteria) \in {Oldest, Newest, Largest, Smallest}
            THEN KeepLoop(files, 0, 0, ToLower(c.KeepCriteria))
            ELSE 0

selectFileToKeep(group, c) ==
    LET files == group.Files
    IN IF HasPrefix(c.KeepCriteria, PathPrefix)
       THEN LET m == FirstPathMatch(files, 0, TrimPrefix(c.KeepCriteria, PathPrefix))
            IN IF m >= 0 THEN m ELSE 0
       ELSE IF ToLower(c.KeepCriteria) \in {Oldest, Newest, Largest, Smallest}
            THEN KeepLoop(files, 0, 0, ToLower(c.KeepCriteria))
            ELSE 0

\* ReportedKeepIdx as it would be if the report marked the first member KEEP
ReportedKeepFirst(dups, c) == [g \in DOMAIN dups |-> 0]

\* the keepIdx reportDuplicates computes for each group and prints as KEEP
ReportedKeepIdx(dups, c) == [g \in DOMAIN dups |-> selectFileToKeep(dups[g], c)]

(***************************************************************************)
(* Configurations and inputs                                               *)
(***************************************************************************)
Thresholds == (0 - 1)..MaxThreshold

DefaultCfg ==
    [PerceptualMode |-> FALSE, SimilarityThreshold |-> 10,
     KeepCriteria |-> Oldest, MoveTo |-> NoString,
     Interactive |-> FALSE, DryRun |-> FALSE, Workers |-> 1,
     HashAlgorithm |-> <<"s", "h", "a", "2", "5", "6">>,
     PHashAlgorithm |-> <<"d", "h", "a", "s", "h">>,
     WatchMode |-> FALSE, WatchAutoClean |-> FALSE, TUI |-> FALSE]

\* no function is being evaluated on its own
NoCall == [fn |-> "none"]
\* tui.New(groups): the Model before any message (tui/tui.go:144-155)
New(groups) ==
    [groups |-> groups, currentGroup |-> 0, cursor |-> 0, confirmed |-> FALSE,
     quitting |-> FALSE, filesToDelete |-> <<>>]

\* the TUI has not been started
NoModel == New(<<>>)

NothingCalled == call = NoCall /\ ret = NoCall /\ model = NoModel

\* processDuplicates has not been entered
NothingProcessed ==
    /\ handed = <<>>
    /\ undoLog = <<>>
    /\ savedUndo = <<>>
    /\ gi = 0
    /\ mi = 0

\* computeHashes is not running: its locals do not exist
HashingOver ==
    /\ filesToHash = <<>>
    /\ sent = 0
    /\ fileChan = <<>>
    /\ fileChanClosed = TRUE
    /\ resultChan = <<>>
    /\ errorChan = <<>>
    /\ resultClosed = TRUE
    /\ errorClosed = TRUE
    /\ wg = 0
    /\ wpc = <<>>
    /\ wfile = <<>>
    /\ hasher = <<>>
    /\ outcome = [p \in {} |-> "ok"]
    /\ phashErr = {}
    /\ errLog = <<>>
    /\ hashedCount = 0
    /\ lastProgressUpdate = 0

\* lists of n hashed files whose i-th file has path PathOf(i)
HashedLists(n, digests, phashes, sizes, times) ==
    {[i \in 1..n |-> [Path |-> PathOf(i), Size |-> f[i].Size, Hash |-> f[i].Hash,
                      ModTime |-> f[i].ModTime, PHash |-> f[i].PHash]] :
        f \in [1..n -> [Size : sizes, Hash : digests, ModTime : times, PHash : phashes]]}

(***************************************************************************)
(* SpecGroup: findDuplicates applied to every bounded list of hashed files *)
(***************************************************************************)
InitGroup ==
    /\ \E perceptual \in BOOLEAN :
       \E threshold \in (IF perceptual THEN Thresholds ELSE {10}) :
          cfg = [DefaultCfg EXCEPT !.PerceptualMode = perceptual,
                                   !.SimilarityThreshold = threshold]
    /\ pc = "find"
    /\ \E n \in 0..MaxFiles :
          fileHashes \in HashedLists(n, Digests, Fingerprints \cup {NoString}, {1}, {1})
    /\ duplicates = <<>>
    /\ reportedKeep = <<>>
    /\ disk = {fileHashes[i].Path : i \in DOMAIN fileHashes}
    /\ NothingProcessed
    /\ NothingCalled
    /\ HashingOver

\* main.go:273  duplicates := findDuplicates(fileHashes)
FindDuplicates ==
    /\ pc = "find"
    /\ duplicates' \in findDuplicates(fileHashes, cfg)
    /\ pc' = "report"
    /\ UNCHANGED <<pureVars, cfg, fileHashes, reportedKeep, procVars, hashVars>>

SpecGroup == InitGroup /\ [][FindDuplicates]_vars

(***************************************************************************)
(* SpecSelect: selectFileToKeep applied to every bounded group under every *)
(* policy, through reportDuplicates                                        *)
(***************************************************************************)
Policies ==
    {Oldest, Newest, Largest, Smallest,
     <<"O","L","D","E","S","T">>, <<"f","i","r","s","t">>, NoString,
     PathPrefix, PathPrefix \o <<"a">>, PathPrefix \o <<"b">>, PathPrefix \o <<"d","/">>,
     PathPrefix \o <<"x">>, <<"P","A","T","H",":","b">>}

InitSelect ==
    /\ \E policy \in Policies : cfg = [DefaultCfg EXCEPT !.KeepCriteria = policy]
    /\ pc = "report"
    /\ fileHashes = <<>>
    /\ \E n \in 1..MaxMembers :
       \E files \in HashedLists(n, {<<"a">>}, {NoString}, 1..MaxStamp, 1..MaxStamp) :
          duplicates = <<ExactGroup(<<"a">>, files)>>
    /\ reportedKeep = <<>>
    /\ disk = UNION {{f.Path : f \in Range(duplicates[g].Files)} : g \in DOMAIN duplicates}
    /\ NothingProcessed
    /\ NothingCalled
    /\ HashingOver

\* main.go:277  reportDuplicates(duplicates)
ReportDuplicates ==
    /\ pc = "report"
    /\ reportedKeep' = (IF Len(duplicates) = 0 THEN <<>> ELSE ReportedKeepIdx(duplicates, cfg))
    /\ pc' = "process"
    /\ UNCHANGED <<pureVars, cfg, fileHashes, duplicates, procVars, hashVars>>

SpecSelect == InitSelect /\ [][ReportDuplicates]_vars

(***************************************************************************)
(* processDuplicates                                                       *)
(***************************************************************************)
MoveDir == <<"m">>

\* filepath.Base: what follows the last separator
RECURSIVE Base(_)
Base(path) ==
    IF \E k \in DOMAIN path : path[k] = "/"
    THEN Base(SubSeq(path, 2, Len(path)))
    ELSE path

\* filepath.Join(dir, name)
Join(dir, name) == dir \o <<"/">> \o name

\* fmt.Sprintf("%d", n) for one decimal digit
Itoa(n) == <<"0", "1", "2", "3", "4", "5", "6", "7", "8", "9">>[n + 1]

\* "for { if os.Stat(targetPath) is not-exist { break }; targetPath = name_counter+ext; counter++ }"
RECURSIVE FreeTarget(_, _, _, _)
FreeTarget(onDisk, path, targetPath, counter) ==
    IF targetPath \notin onDisk THEN targetPath
    ELSE LET base == Base(path)
             ext == Ext(base)
             name == TrimSuffix(base, ext)
         IN FreeTarget(onDisk, path,
                       Join(MoveDir, name \o <<"_", Itoa(counter)>> \o ext), counter + 1)

TargetPath(onDisk, path) == FreeTarget(onDisk, path, Join(MoveDir, Base(path)), 1)

UndoEntry(fh) ==
    [Path |-> fh.Path, Size |-> fh.Size, ModTime |-> fh.ModTime,
     Action |-> "deleted", TargetPath |-> NoString]

\* IsCandidate as it would be if the first member were always the one spared
IsCandidateNotFirst(i, keepIdx) == i # 0

\* "if i != keepIdx": member i of the group is to be removed
IsCandidate(i, keepIdx) == i # keepIdx

\* main.go:289  "if !cfg.DryRun && len(duplicates) > 0" is false
SkipProcess ==
    /\ pc = "process"
    /\ cfg.DryRun \/ Len(duplicates) = 0
    /\ pc' = "done"
    /\ UNCHANGED <<pureVars, cfg, fileHashes, duplicates, reportedKeep, procVars, hashVars>>

\* processDuplicates up to its loops: os.MkdirAll, the warning and its prompt
ProcessStart ==
    /\ pc = "process"
    /\ ~cfg.DryRun /\ Len(duplicates) > 0
    /\ \/ \* os.MkdirAll fails: the error reaches log.Fatalf
          /\ cfg.MoveTo # NoString
          /\ pc' = "fatal"
          /\ UNCHANGED <<gi, mi>>
       \/ \* the answer to "Continue with permanent deletion?" is not y
          /\ cfg.Interactive /\ cfg.MoveTo = NoString
          /\ pc' = "done"
          /\ UNCHANGED <<gi, mi>>
       \/ \* the directory exists or was made, and the answer, if asked, is y
          /\ pc' = "loop"
          /\ gi' = 1
          /\ mi' = 0
    /\ UNCHANGED <<pureVars, cfg, fileHashes, duplicates, reportedKeep, disk, handed, undoLog,
                   savedUndo, hashVars>>

\* the position after member i of group g
Advance(g, i) ==
    IF i + 1 < Len(duplicates[g].Files)
    THEN gi' = g /\ mi' = i + 1
    ELSE gi' = g + 1 /\ mi' = 0

\* one iteration of "for i, fh := range group.Files"
ProcessMember ==
    /\ pc = "loop"
    /\ gi <= Len(duplicates)
    /\ LET group == duplicates[gi]
           keepIdx == selectFileToKeep(group, cfg)
           fh == group.Files[mi + 1]
       IN IF ~IsCandidate(mi, keepIdx)
          THEN /\ Advance(gi, mi)
               /\ pc' = pc
               /\ UNCHANGED <<disk, handed, undoLog>>
          ELSE \E response \in (IF cfg.Interactive THEN {"y", "n", "q"} ELSE {"y"}) :
               \E failed \in BOOLEAN :
                 IF response = "q"
                 THEN \* "Quitting...": return nil
                      /\ ~failed
                      /\ pc' = "done"
                      /\ UNCHANGED <<disk, handed, undoLog, gi, mi>>
                 ELSE IF response # "y"
                 THEN \* continue
                      /\ ~failed
                      /\ Advance(gi, mi)
                      /\ pc' = pc
                      /\ UNCHANGED <<disk, handed, undoLog>>
                 ELSE \* os.Rename or os.Remove, which fails or not
                      /\ handed' = Append(handed, fh.Path)
                      /\ IF failed
                         THEN UNCHANGED <<disk, undoLog>>
                         ELSE /\ disk' = (IF cfg.MoveTo # NoString
                                          THEN (disk \ {fh.Path}) \cup {TargetPath(disk, fh.Path)}
                                          ELSE disk \ {fh.Path})
                              /\ undoLog' = Append(undoLog, UndoEntry(fh))
                      /\ Advance(gi, mi)
                      /\ pc' = pc
    /\ UNCHANGED <<pureVars, cfg, fileHashes, duplicates, reportedKeep, savedUndo, hashVars>>

\* after the loops: the summary line and saveUndoLog, which fails or not
ProcessFinish ==
    /\ pc = "loop"
    /\ gi > Len(duplicates)
    /\ \E saveFailed \in BOOLEAN :
          IF Len(undoLog) > 0 /\ cfg.MoveTo = NoString /\ ~saveFailed
          THEN savedUndo' = undoLog
          ELSE (saveFailed => Len(undoLog) > 0 /\ cfg.MoveTo = NoString)
               /\ UNCHANGED savedUndo
    /\ pc' = "done"
    /\ UNCHANGED <<pureVars, cfg, fileHashes, duplicates, reportedKeep, disk, handed, undoLog,
                   gi, mi, hashVars>>

(***************************************************************************)
(* Spec: main from findDuplicates on, for every bounded result of the      *)
(* hashing phase                                                           *)
(***************************************************************************)
RunPolicies == {Oldest, PathPrefix \o <<"b">>, PathPrefix \o <<"d", "/">>}

Init ==
    /\ \E perceptual, interactive, dryRun \in BOOLEAN :
       \E policy \in RunPolicies :
       \E moveTo \in {NoString, MoveDir} :
          cfg = [DefaultCfg EXCEPT !.PerceptualMode = perceptual, !.SimilarityThreshold = 1,
                                   !.Interactive = interactive, !.DryRun = dryRun,
                                   !.KeepCriteria = policy, !.MoveTo = moveTo]
    /\ pc = "find"
    /\ \E n \in 0..MaxRunFiles :
          /\ fileHashes \in HashedLists(n, Digests, {NoString, SampleFingerprint}, {1}, {1})
          /\ \A i \in 1..n : fileHashes[i].PHash # NoString
                                => (cfg.PerceptualMode /\ isImageFile(fileHashes[i].Path))
    /\ duplicates = <<>>
    /\ reportedKeep = <<>>
    /\ disk = {fileHashes[i].Path : i \in DOMAIN fileHashes}
    /\ NothingProcessed
    /\ NothingCalled
    /\ HashingOver

Next ==
    \/ FindDuplicates
    \/ ReportDuplicates
    \/ SkipProcess
    \/ ProcessStart
    \/ ProcessMember
    \/ ProcessFinish

Spec == Init /\ [][Next]_vars

(***************************************************************************)
(* computeHashes and worker                                                *)
(***************************************************************************)
\* in the file system of the model the bytes of a file are given by the first
\* letter of its name, so a and d/a are duplicates
FileBytes(path) == <<Base(path)[1]>>

\* "hex.EncodeToString(hasher.Sum(nil))": the digest of all the bytes written to
\* the hasher since it was made; a digest stands for exactly these bytes
Sum(written) == written

\* "io.Copy(hasher, file)": the file's bytes are written after what the hasher holds
Copy(written, path) == written \o FileBytes(path)

\* the digest hashFile returns for a file when it is given a new hasher
ContentDigest(path) == Sum(Copy(NoString, path))

\* the FileHash literal a worker sends
HashedFile(path, phash) ==
    [Path |-> path, Size |-> 1, Hash |-> ContentDigest(path), ModTime |-> 1, PHash |-> phash]

Workers == 1..cfg.Workers
ResultCap == Len(filesToHash)
ErrorCap == Len(filesToHash)
FileCap == cfg.Workers

\* computeHashes has started its goroutines on the first n of the paths scanned,
\* with the perceptual mode one of modes and the -keep policy one of policies
InitHashWith(scanned, modes, policies) ==
    /\ \E workers \in 1..MaxWorkers : \E perceptual \in modes : \E policy \in policies :
          cfg = [DefaultCfg EXCEPT !.Workers = workers, !.PerceptualMode = perceptual,
                                   !.KeepCriteria = policy]
    /\ pc = "collect"
    /\ \E n \in 0..Len(scanned) : filesToHash = SubSeq(scanned, 1, n)
    /\ sent = 0
    /\ fileChan = <<>>
    /\ fileChanClosed = FALSE
    /\ resultChan = <<>>
    /\ errorChan = <<>>
    /\ resultClosed = FALSE
    /\ errorClosed = FALSE
    /\ wg = cfg.Workers
    /\ wpc = [w \in Workers |-> "recv"]
    /\ wfile = [w \in Workers |-> NoString]
    /\ hasher = [w \in Workers |-> NoString]
    /\ outcome = [p \in {} |-> "ok"]
    /\ phashErr = {}
    /\ errLog = <<>>
    /\ hashedCount = 0
    /\ lastProgressUpdate = 0
    /\ fileHashes = <<>>
    /\ duplicates = <<>>
    /\ reportedKeep = <<>>
    /\ disk = Range(filesToHash)
    /\ NothingProcessed
    /\ NothingCalled

\* the same under the default policy
InitHashOn(scanned, modes) == InitHashWith(scanned, modes, {DefaultCfg.KeepCriteria})

InitHash == InitHashOn([i \in 1..MaxPaths |-> PathOf(i)], BOOLEAN)

\* the feeding goroutine: "fileChan <- file"
FeedSend ==
    /\ sent < Len(filesToHash)
    /\ Len(fileChan) < FileCap
    /\ fileChan' = Append(fileChan, filesToHash[sent + 1])
    /\ sent' = sent + 1
    /\ UNCHANGED <<pureVars, cfg, pc, fileHashes, duplicates, reportedKeep, procVars, filesToHash,
                   fileChanClosed, resultChan, errorChan, resultClosed, errorClosed, wg,
                   wpc, wfile, hasher, outcome, phashErr, errLog, hashedCount, lastProgressUpdate>>

\* the feeding goroutine: "close(fileChan)"
FeedClose ==
    /\ sent = Len(filesToHash)
    /\ ~fileChanClosed
    /\ fileChanClosed' = TRUE
    /\ UNCHANGED <<pureVars, cfg, pc, fileHashes, duplicates, reportedKeep, procVars, filesToHash, sent,
                   fileChan, resultChan, errorChan, resultClosed, errorClosed, wg,
                   wpc, wfile, hasher, outcome, phashErr, errLog, hashedCount, lastProgressUpdate>>

\* worker w: "for file := range fileChan" takes a path, or ends and runs wg.Done()
WorkerRecv(w) ==
    /\ wpc[w] = "recv"
    /\ \/ /\ fileChan # <<>>
          /\ wfile' = [wfile EXCEPT ![w] = Head(fileChan)]
          /\ fileChan' = Tail(fileChan)
          /\ wpc' = [wpc EXCEPT ![w] = "hash"]
          /\ UNCHANGED wg
       \/ /\ fileChan = <<>> /\ fileChanClosed
          /\ wpc' = [wpc EXCEPT ![w] = "exit"]
          /\ wg' = wg - 1
          /\ UNCHANGED <<wfile, fileChan>>
    /\ UNCHANGED <<pureVars, cfg, pc, fileHashes, duplicates, reportedKeep, procVars,
                   filesToHash, sent, hasher,
                   fileChanClosed, resultChan, errorChan, resultClosed, errorClosed,
                   outcome, phashErr, errLog, hashedCount, lastProgressUpdate>>

\* WorkerAfterError as it would be if the worker returned on a hashing error
WorkerAfterErrorReturn == "exit"

\* where the worker goes after sending an error: "continue"
WorkerAfterError == "recv"

\* FailedFingerprint as it would be if a failed computePerceptualHash left a fingerprint
FailedFingerprintLeft == SampleFingerprint

\* what computePerceptualHash returns with its error: "return "", err"
FailedFingerprint == NoString

\* the hasher a worker would give hashFile if it made one hasher before its loop
HasherOfWorker(w) == hasher[w]

\* worker: "hasher := getHasher()" in the body of the loop: nothing is written to it
HasherForFile(w) == NoString

\* worker w: hashFile, computePerceptualHash and the send of the result or of the error
WorkerHash(w) ==
    /\ wpc[w] = "hash"
    /\ \/ \* hashFile returns an error
          /\ Len(errorChan) < ErrorCap
          /\ errorChan' = Append(errorChan, wfile[w])
          /\ outcome' = [p \in (DOMAIN outcome) \cup {wfile[w]} |->
                            IF p = wfile[w] THEN "err" ELSE outcome[p]]
          /\ wpc' = [wpc EXCEPT ![w] = WorkerAfterError]
          /\ wg' = (IF WorkerAfterError = "exit" THEN wg - 1 ELSE wg)
          /\ hasher' = [hasher EXCEPT ![w] = HasherForFile(w)]
          /\ UNCHANGED <<resultChan, phashErr>>
       \/ \* hashFile succeeds; computePerceptualHash is called for an image in
          \* perceptual mode, and its error is logged at most
          /\ Len(resultChan) < ResultCap
          /\ \E decoded \in BOOLEAN :
                LET called == cfg.PerceptualMode /\ isImageFile(wfile[w])
                    phash == IF ~called THEN NoString
                             ELSE IF decoded THEN SampleFingerprint ELSE FailedFingerprint
                IN /\ (~decoded => called)
                   /\ phashErr' = (IF called /\ ~decoded THEN phashErr \cup {wfile[w]}
                                   ELSE phashErr)
                   /\ hasher' = [hasher EXCEPT ![w] = Copy(HasherForFile(w), wfile[w])]
                   /\ resultChan' = Append(resultChan,
                                           [HashedFile(wfile[w], phash) EXCEPT
                                               !.Hash = Sum(hasher'[w])])
          /\ outcome' = [p \in (DOMAIN outcome) \cup {wfile[w]} |->
                            IF p = wfile[w] THEN "ok" ELSE outcome[p]]
          /\ wpc' = [wpc EXCEPT ![w] = "progress"]
          /\ UNCHANGED <<errorChan, wg>>
    /\ UNCHANGED <<pureVars, cfg, pc, fileHashes, duplicates, reportedKeep, procVars, filesToHash, sent,
                   fileChan, fileChanClosed, resultClosed, errorClosed, wfile,
                   errLog, hashedCount, lastProgressUpdate>>

\* worker w: "hashedMutex.Lock(); *hashedCount++; ...; hashedMutex.Unlock()", then,
\* outside the mutex, "if time.Since(*lastProgressUpdate) > progressUpdateInterval {
\* *lastProgressUpdate = time.Now(); ... }"; what the unsynchronized read gives is
\* any of the two outcomes
WorkerProgress(w) ==
    /\ wpc[w] = "progress"
    /\ hashedCount' = hashedCount + 1
    /\ \E elapsed \in BOOLEAN :
          lastProgressUpdate' = (IF elapsed THEN w ELSE lastProgressUpdate)
    /\ wpc' = [wpc EXCEPT ![w] = "recv"]
    /\ UNCHANGED <<pureVars, cfg, pc, fileHashes, duplicates, reportedKeep, procVars, filesToHash, sent,
                   chanVars, wg, wfile, hasher, outcome, phashErr, errLog>>

\* CloserMayClose as it would be if the closing goroutine did not wait for the workers
CloserMayCloseEarly == fileChanClosed

\* the closing goroutine: wg.Wait() has returned
CloserMayClose == wg = 0

\* the closing goroutine: "close(resultChan)"
CloseResults ==
    /\ CloserMayClose
    /\ ~resultClosed
    /\ resultClosed' = TRUE
    /\ UNCHANGED <<pureVars, cfg, pc, fileHashes, duplicates, reportedKeep, procVars, filesToHash, sent,
                   fileChan, fileChanClosed, resultChan, errorChan, errorClosed, wg,
                   wpc, wfile, hasher, outcome, phashErr, errLog, hashedCount, lastProgressUpdate>>

\* the closing goroutine: "close(errorChan)"
CloseErrors ==
    /\ resultClosed
    /\ ~errorClosed
    /\ errorClosed' = TRUE
    /\ UNCHANGED <<pureVars, cfg, pc, fileHashes, duplicates, reportedKeep, procVars, filesToHash, sent,
                   fileChan, fileChanClosed, resultChan, errorChan, resultClosed, wg,
                   wpc, wfile, hasher, outcome, phashErr, errLog, hashedCount, lastProgressUpdate>>

\* RangeResultsEnds as it would be if the loop ended whenever nothing is waiting
RangeResultsEndsOnEmpty == resultChan = <<>>

\* "for fh := range resultChan" ends: the channel is closed and drained
RangeResultsEnds == resultChan = <<>> /\ resultClosed

\* computeHashes: "for fh := range resultChan { fileHashes = append(fileHashes, fh) }"
CollectResults ==
    /\ pc = "collect"
    /\ \/ /\ resultChan # <<>>
          /\ fileHashes' = Append(fileHashes, Head(resultChan))
          /\ resultChan' = Tail(resultChan)
          /\ pc' = pc
       \/ /\ RangeResultsEnds
          /\ pc' = "errors"
          /\ UNCHANGED <<fileHashes, resultChan>>
    /\ UNCHANGED <<pureVars, cfg, duplicates, reportedKeep, procVars, filesToHash, sent,
                   fileChan, fileChanClosed, errorChan, resultClosed, errorClosed, wg,
                   wpc, wfile, hasher, outcome, phashErr, errLog, hashedCount, lastProgressUpdate>>

\* computeHashes: "for err := range errorChan { log.Printf(...) }", then the return
DrainErrors ==
    /\ pc = "errors"
    /\ \/ /\ errorChan # <<>>
          /\ errLog' = Append(errLog, Head(errorChan))
          /\ errorChan' = Tail(errorChan)
          /\ pc' = pc
       \/ /\ errorChan = <<>> /\ errorClosed
          /\ pc' = "find"
          /\ UNCHANGED <<errLog, errorChan>>
    /\ UNCHANGED <<pureVars, cfg, fileHashes, duplicates, reportedKeep, procVars, filesToHash, sent,
                   fileChan, fileChanClosed, resultChan, resultClosed, errorClosed, wg,
                   wpc, wfile, hasher, outcome, phashErr, hashedCount, lastProgressUpdate>>

Feeder == FeedSend \/ FeedClose
Worker(w) == WorkerRecv(w) \/ WorkerHash(w) \/ WorkerProgress(w)
Closer == CloseResults \/ CloseErrors
Collector == CollectResults \/ DrainErrors

NextHash ==
    \/ Feeder
    \/ \E w \in Workers : Worker(w)
    \/ Closer
    \/ Collector
    \/ FindDuplicates

SpecHash == InitHash /\ [][NextHash]_vars

\* files of the same bytes, every other one with an image extension: b.png, b,
\* d/b.png, d/b, ...
SameBytesPathOf(i) ==
    DirPrefix((i - 1) \div 2)
        \o (IF i % 2 = 1 THEN <<"b", ".", "p", "n", "g">> ELSE <<"b">>)

\* SpecDecode: hashing in perceptual mode, then grouping, of files of the same bytes
InitDecode == InitHashOn([i \in 1..MaxPaths |-> SameBytesPathOf(i)], {TRUE})

SpecDecode == InitDecode /\ [][NextHash]_vars

\* SpecPool: hashing in exact mode, then grouping, of files of the same bytes,
\* under a policy on which the members tie (the modification times are equal)
\* and one that names a part of the path
PoolPolicies == {Oldest, PathPrefix \o <<".">>}
InitPool == InitHashWith([i \in 1..MaxPaths |-> SameBytesPathOf(i)], {FALSE}, PoolPolicies)

SpecPool == InitPool /\ [][NextHash]_vars

\* every goroutine that can run is scheduled in the end
FairSpecHash ==
    /\ SpecHash
    /\ WF_vars(Feeder)
    /\ \A w \in 1..MaxWorkers : WF_vars(w \in Workers /\ Worker(w))
    /\ WF_vars(Closer)
    /\ WF_vars(Collector)

(***************************************************************************)
(* getHasher and the algorithm switch of computePerceptualHash             *)
(***************************************************************************)
\* getHasher: the constructor it calls, for the value of cfg.HashAlgorithm
getHasher(c) ==
    LET name == ToLower(c.HashAlgorithm)
    IN CASE name = <<"m", "d", "5">> -> "md5.New"
         [] name = <<"s", "h", "a", "1">> -> "sha1.New"
         [] name = <<"s", "h", "a", "2", "5", "6">> -> "sha256.New"
         [] OTHER -> "sha256.New"

\* PHashDefault as it would be if an unknown algorithm name were refused
PHashDefaultRefused == [fn |-> "none", err |-> TRUE]

\* computePerceptualHash: "default: return dHash(img)"
PHashDefault == [fn |-> "dHash", err |-> FALSE]

\* computePerceptualHash, after a successful image.Decode: the function the switch
\* on strings.ToLower(algorithm) calls; none of the three returns an error
PHashSwitch(algorithm) ==
    LET name == ToLower(algorithm)
    IN CASE name \in {<<"d", "h", "a", "s", "h">>, <<"d", "i", "f", "f", "e", "r", "e", "n", "c", "e">>}
              -> [fn |-> "dHash", err |-> FALSE]
         [] name \in {<<"a", "h", "a", "s", "h">>, <<"a", "v", "e", "r", "a", "g", "e">>}
              -> [fn |-> "aHash", err |-> FALSE]
         [] name \in {<<"p", "h", "a", "s", "h">>, <<"p", "e", "r", "c", "e", "p", "t", "u", "a", "l">>}
              -> [fn |-> "pHash", err |-> FALSE]
         [] OTHER -> PHashDefault

\* values of -hash and -phash-algo: the names the code knows, in some spellings
KnownHashNames ==
    {<<"m", "d", "5">>, <<"M", "D", "5">>, <<"s", "h", "a", "1">>,
     <<"S", "h", "a", "1">>, <<"s", "h", "a", "2", "5", "6">>,
     <<"S", "H", "A", "2", "5", "6">>}
UnknownHashNames ==
    {<<>>, <<"s", "h", "a", "5", "1", "2">>, <<"c", "r", "c">>,
     <<"s", "h", "a", "-", "2", "5", "6">>,
     <<" ", "s", "h", "a", "2", "5", "6">>, <<"s", "h", "a">>,
     <<"d", "h", "a", "s", "h">>}
KnownPHashNames ==
    {<<"d", "h", "a", "s", "h">>, <<"D", "H", "a", "s", "h">>,
     <<"d", "i", "f", "f", "e", "r", "e", "n", "c", "e">>,
     <<"a", "h", "a", "s", "h">>, <<"A", "H", "A", "S", "H">>,
     <<"a", "v", "e", "r", "a", "g", "e">>, <<"p", "h", "a", "s", "h">>,
     <<"p", "e", "r", "c", "e", "p", "t", "u", "a", "l">>,
     <<"P", "e", "r", "c", "e", "p", "t", "u", "a", "l">>}
UnknownPHashNames ==
    {<<>>, <<"x", "h", "a", "s", "h">>, <<"m", "d", "5">>,
     <<"d", "-", "h", "a", "s", "h">>, <<"d", "h", "a", "s", "h", " ">>}

\* SpecAlgo: both selections, for every pair of names
InitAlgo ==
    /\ \E h \in KnownHashNames \cup UnknownHashNames :
       \E ph \in KnownPHashNames \cup UnknownPHashNames :
          cfg = [DefaultCfg EXCEPT !.HashAlgorithm = h, !.PHashAlgorithm = ph]
    /\ pc = "hash"
    /\ fileHashes = <<>>
    /\ duplicates = <<>>
    /\ reportedKeep = <<>>
    /\ disk = {}
    /\ NothingProcessed
    /\ NothingCalled
    /\ HashingOver

\* worker: "hasher := getHasher()"
GetHasher ==
    /\ call' = [fn |-> "getHasher"]
    /\ ret' = getHasher(cfg)
    /\ UNCHANGED <<cfg, pc, fileHashes, duplicates, reportedKeep, procVars, hashVars, model>>

\* worker: "computePerceptualHash(file, cfg.PHashAlgorithm)" on a decodable image
ComputePerceptualHash ==
    /\ call' = [fn |-> "computePerceptualHash", algorithm |-> cfg.PHashAlgorithm]
    /\ ret' = PHashSwitch(cfg.PHashAlgorithm)
    /\ UNCHANGED <<cfg, pc, fileHashes, duplicates, reportedKeep, procVars, hashVars, model>>

NextAlgo == GetHasher \/ ComputePerceptualHash

SpecAlgo == InitAlgo /\ [][NextAlgo]_vars

(***************************************************************************)
(* hammingDistance and the similarity decisions                            *)
(***************************************************************************)
\* isSimilarImage
isSimilarImage(hash1, hash2, threshold) ==
    LET dist == hammingDistance(hash1, hash2)
    IN dist >= 0 /\ dist <= threshold

\* compareImagesCLI, main.go:1160-1163: "reqDist <= cfg.SimilarityThreshold"
CompareVerdict(reqHash1, reqHash2, c) ==
    LET reqDist == hammingDistance(reqHash1, reqHash2)
    IN reqDist <= c.SimilarityThreshold

\* the strings of '0' and '1' of length at most n
BitStrings(n) == UNION {[1..k -> Bits] : k \in 0..n}

\* SpecHamming: two hashed files with any two strings as fingerprints
InitHamming ==
    /\ \E threshold \in Thresholds :
          cfg = [DefaultCfg EXCEPT !.PerceptualMode = TRUE, !.SimilarityThreshold = threshold]
    /\ pc = "compare"
    /\ \E hash1, hash2 \in BitStrings(MaxHashLen) :
          fileHashes = <<[Path |-> PathOf(2), Size |-> 1, Hash |-> ContentDigest(PathOf(2)),
                          ModTime |-> 1, PHash |-> hash1],
                         [Path |-> PathOf(3), Size |-> 1, Hash |-> ContentDigest(PathOf(3)),
                          ModTime |-> 1, PHash |-> hash2]>>
    /\ duplicates = <<>>
    /\ reportedKeep = <<>>
    /\ disk = {fileHashes[i].Path : i \in DOMAIN fileHashes}
    /\ NothingProcessed
    /\ NothingCalled
    /\ HashingOver

\* hammingDistance(hash1, hash2)
HammingDistance ==
    /\ call' = [fn |-> "hammingDistance"]
    /\ ret' = hammingDistance(fileHashes[1].PHash, fileHashes[2].PHash)
    /\ UNCHANGED <<cfg, pc, fileHashes, duplicates, reportedKeep, procVars, hashVars, model>>

\* isSimilarImage(hash1, hash2, threshold)
IsSimilarImage ==
    /\ call' = [fn |-> "isSimilarImage"]
    /\ ret' = isSimilarImage(fileHashes[1].PHash, fileHashes[2].PHash, cfg.SimilarityThreshold)
    /\ UNCHANGED <<cfg, pc, fileHashes, duplicates, reportedKeep, procVars, hashVars, model>>

\* findPerceptualDuplicates on the two files, both with a fingerprint: whether the
\* sweep puts the second into the group of the first
SweepDecision ==
    /\ Len(ImageFiles(fileHashes)) = 2
    /\ call' = [fn |-> "findPerceptualDuplicates"]
    /\ \E dups \in findPerceptualDuplicates(fileHashes, cfg) :
          ret' = (\E g \in DOMAIN dups : Len(dups[g].Files) = 2)
    /\ UNCHANGED <<cfg, pc, fileHashes, duplicates, reportedKeep, procVars, hashVars, model>>

\* compareImagesCLI, the recommendation: computePerceptualHash gives a whole
\* fingerprint, or "" with an error that main.go:1158-1159 drops
CompareImagesCLI ==
    /\ \A i \in DOMAIN fileHashes : Len(fileHashes[i].PHash) \in {0, MaxHashLen}
    /\ call' = [fn |-> "compareImagesCLI"]
    /\ ret' = CompareVerdict(fileHashes[1].PHash, fileHashes[2].PHash, cfg)
    /\ UNCHANGED <<cfg, pc, fileHashes, duplicates, reportedKeep, procVars, hashVars, model>>

NextHamming == HammingDistance \/ IsSimilarImage \/ SweepDecision \/ CompareImagesCLI

SpecHamming == InitHamming /\ [][NextHamming]_vars

(***************************************************************************)
(* The float64 conversions of the perceptual hashing file, tabulated       *)
(***************************************************************************)
Pixels == (0..HashSide) \X (0..(HashSide - 1))

\* "uint8(math.Pow(float64(r)/65535.0, invGamma) * 255)" with gamma 2.2, for
\* r/257 = 0, ..., 255
GammaTable ==
    <<0, 20, 28, 33, 38, 42, 46, 49, 52, 55, 58, 61, 63, 65, 68, 70,
      72, 74, 76, 78, 80, 81, 83, 85, 87, 88, 90, 91, 93, 94, 96, 97,
      99, 100, 102, 103, 104, 106, 107, 108, 109, 111, 112, 113, 114, 115, 117, 118,
      119, 120, 121, 122, 123, 124, 125, 126, 128, 129, 130, 131, 132, 133, 134, 135,
      136, 136, 137, 138, 139, 140, 141, 142, 143, 144, 145, 146, 147, 147, 148, 149,
      150, 151, 152, 153, 153, 154, 155, 156, 157, 158, 158, 159, 160, 161, 162, 162,
      163, 164, 165, 165, 166, 167, 168, 168, 169, 170, 171, 171, 172, 173, 174, 174,
      175, 176, 176, 177, 178, 178, 179, 180, 181, 181, 182, 183, 183, 184, 185, 185,
      186, 187, 187, 188, 189, 189, 190, 190, 191, 192, 192, 193, 194, 194, 195, 196,
      196, 197, 197, 198, 199, 199, 200, 200, 201, 202, 202, 203, 203, 204, 205, 205,
      206, 206, 207, 208, 208, 209, 209, 210, 210, 211, 212, 212, 213, 213, 214, 214,
      215, 216, 216, 217, 217, 218, 218, 219, 219, 220, 220, 221, 222, 222, 223, 223,
      224, 224, 225, 225, 226, 226, 227, 227, 228, 228, 229, 229, 230, 230, 231, 231,
      232, 232, 233, 233, 234, 234, 235, 235, 236, 236, 237, 237, 238, 238, 239, 239,
      240, 240, 241, 241, 242, 242, 243, 243, 244, 244, 245, 245, 246, 246, 247, 247,
      248, 248, 249, 249, 249, 250, 250, 251, 251, 252, 252, 253, 253, 254, 254, 255>>

\* "int(0.299*float64(r/256) + 0.587*float64(g/256) + 0.114*float64(b/256))"
\* for r/256 = g/256 = b/256 = 0, ..., 255: the float64 sum is below the gray
\* for some grays, and the conversion truncates
GrayscaleTable ==
    <<0, 0, 1, 3, 3, 5, 6, 7, 7, 9, 10, 10, 12, 12, 14, 15,
      15, 17, 18, 19, 20, 21, 21, 23, 24, 25, 25, 26, 28, 29, 30, 31,
      31, 33, 34, 35, 36, 37, 38, 38, 40, 41, 42, 43, 43, 45, 46, 47,
      48, 49, 50, 50, 51, 53, 53, 55, 56, 56, 58, 58, 60, 60, 62, 63,
      63, 65, 66, 67, 68, 69, 70, 71, 72, 73, 74, 75, 76, 77, 77, 79,
      80, 80, 82, 83, 84, 85, 86, 87, 87, 89, 90, 90, 92, 93, 94, 94,
      96, 97, 98, 99, 100, 100, 101, 103, 103, 105, 106, 107, 107, 109, 110, 111,
      112, 113, 113, 114, 116, 117, 117, 119, 120, 121, 121, 123, 124, 125, 126, 126,
      127, 129, 130, 131, 132, 133, 134, 135, 136, 137, 138, 139, 140, 141, 142, 142,
      144, 145, 146, 147, 148, 148, 150, 151, 152, 153, 154, 155, 155, 156, 158, 159,
      160, 161, 161, 163, 164, 165, 166, 167, 168, 168, 170, 171, 172, 173, 174, 174,
      175, 177, 178, 179, 180, 181, 181, 182, 184, 185, 186, 187, 188, 189, 189, 191,
      192, 193, 194, 194, 196, 197, 198, 199, 200, 201, 201, 202, 203, 205, 206, 207,
      207, 208, 210, 211, 212, 213, 214, 215, 215, 217, 218, 219, 220, 221, 222, 222,
      224, 224, 226, 227, 227, 229, 229, 231, 232, 233, 234, 234, 235, 237, 238, 238,
      240, 240, 242, 243, 243, 245, 246, 247, 248, 248, 250, 250, 252, 253, 253, 255>>

(***************************************************************************)
(* dHash, aHash, pHash (perceptual hashing file)                           *)
(***************************************************************************)
\* the sample images: a flat one, a bright band at the left or at the top, a
\* checkerboard and a ramp falling to the right, in the grays lo and hi
SampleGrays == {0, 100, 255}
SampleImages ==
    [kind : {"flat", "left", "top", "checker", "fall"},
     lo : SampleGrays, hi : SampleGrays, k : 0..MaxStep]

\* grayscale(resized.At(x, y)): the gray of the pixel of the resized image
Gray(img, x, y) ==
    CASE img.kind = "flat" -> img.hi
      [] img.kind = "left" -> (IF x < img.k THEN img.hi ELSE img.lo)
      [] img.kind = "top" -> (IF y < img.k THEN img.hi ELSE img.lo)
      [] img.kind = "checker" -> (IF (x + y) % 2 = 0 THEN img.hi ELSE img.lo)
      [] img.kind = "pixels" -> GrayscaleTable[img.px[<<x, y>>] + 1]
      [] OTHER -> img.lo + (HashSide - x) * img.k

\* the loops "for y := 0; y < 8; y++ { for x := 0; x < 8; x++ {": the i-th bit
\* appended is that of row RowOf(i), column ColOf(i)
RowOf(i) == (i - 1) \div HashSide
ColOf(i) == (i - 1) % HashSide

\* dHash as it would be if it compared every one of the 9 columns with its right neighbour
dHashEveryColumn(img) ==
    [i \in 1..((HashSide + 1) * HashSide) |->
        LET y == (i - 1) \div (HashSide + 1)
            x == (i - 1) % (HashSide + 1)
        IN IF Gray(img, x, y) > Gray(img, x + 1, y) THEN "1" ELSE "0"]

dHash(img) ==
    [i \in 1..(HashSide * HashSide) |->
        IF Gray(img, ColOf(i), RowOf(i)) > Gray(img, ColOf(i) + 1, RowOf(i))
        THEN "1" ELSE "0"]

\* the sum of f(1), ..., f(n)
RECURSIVE SumTo(_, _)
SumTo(f, n) == IF n = 0 THEN 0 ELSE f[n] + SumTo(f, n - 1)

aHash(img) ==
    LET pixels == [i \in 1..(HashSide * HashSide) |-> Gray(img, ColOf(i), RowOf(i))]
        total == SumTo(pixels, HashSide * HashSide)
        avg == total \div (HashSide * HashSide)
    IN [i \in 1..(HashSide * HashSide) |-> IF pixels[i] >= avg THEN "1" ELSE "0"]

\* pHash: dct[y][x], the low-frequency corner of applyDCT's result; the
\* coefficients of the model are those of the sample image moved around 0. The
\* comparison "dct[y][x] >= avg", avg = total / 63, is made without the division.
pHash(img) ==
    LET dct == [i \in 1..(HashSide * HashSide) |-> Gray(img, ColOf(i), RowOf(i)) - 100]
        total == SumTo(dct, HashSide * HashSide) - dct[1]
        count == HashSide * HashSide - 1
    IN [i \in 1..(HashSide * HashSide) |-> IF dct[i] * count >= total THEN "1" ELSE "0"]

\* SpecFingerprint: the three hashes of every sample image, put on a hashed file
InitFingerprint ==
    /\ cfg = [DefaultCfg EXCEPT !.PerceptualMode = TRUE]
    /\ pc = "hash"
    /\ \E img \in SampleImages : call = [fn |-> "image.Decode", img |-> img]
    /\ ret = NoCall
    /\ model = NoModel
    /\ fileHashes = <<>>
    /\ duplicates = <<>>
    /\ reportedKeep = <<>>
    /\ disk = {PathOf(2)}
    /\ NothingProcessed
    /\ HashingOver

\* computePerceptualHash returns hash, the result of the function fn it called on
\* the image, and the worker puts it on the FileHash it sends (main.go:433, 450-456)
Fingerprinted(fn, hash) ==
    /\ call' = [call EXCEPT !.fn = fn]
    /\ ret' = hash
    /\ fileHashes' = <<HashedFile(PathOf(2), ret')>>
    /\ UNCHANGED <<cfg, pc, duplicates, reportedKeep, procVars, hashVars, model>>

DHash == Fingerprinted("dHash", dHash(call.img))
AHash == Fingerprinted("aHash", aHash(call.img))
PHash == Fingerprinted("pHash", pHash(call.img))

NextFingerprint == DHash \/ AHash \/ PHash

SpecFingerprint == InitFingerprint /\ [][NextFingerprint]_vars

(***************************************************************************)
(* Watch mode (the main.go with runWatchMode)                              *)
(***************************************************************************)
\* SpecWatch: main dispatches to runWatchMode, whose initial scan has hashed the
\* files present; state.hashMap is kept as the list fileHashes of its entries
InitWatch ==
    /\ \E dryRun, autoClean \in BOOLEAN : \E moveTo \in {NoString, MoveDir} :
          cfg = [DefaultCfg EXCEPT !.WatchMode = TRUE, !.WatchAutoClean = autoClean,
                                   !.DryRun = dryRun, !.MoveTo = moveTo]
    /\ pc = "watch"
    /\ \E n \in 0..MaxPaths : fileHashes = [i \in 1..n |-> HashedFile(PathOf(i), NoString)]
    /\ duplicates = <<>>
    /\ reportedKeep = <<>>
    /\ disk = {fileHashes[i].Path : i \in DOMAIN fileHashes}
    /\ NothingProcessed
    /\ NothingCalled
    /\ HashingOver

\* "existingFiles, exists := state.hashMap[hash]": the tracked entries of a digest
ExistingFiles(hash) == SelectSeq(fileHashes, LAMBDA fh : fh.Hash = hash)

\* a Create or Write event for a file, the debounce, and processNewFiles for it:
\* hashFile, the lookup in state.hashMap, the insertion, reportDuplicate and
\* handleAutoClean; call keeps the arguments of the last reportDuplicate
WatchEvent ==
    /\ pc = "watch"
    /\ Len(fileHashes) < MaxRunFiles
    /\ \E i \in 1..MaxRunFiles : \E hashFailed, failed \in BOOLEAN :
          LET file == PathOf(i)
              written == disk \cup {file}
              existingFiles == ExistingFiles(ContentDigest(file))
              isDuplicate == Len(existingFiles) > 0
          IN IF hashFailed
             THEN /\ ~failed
                  /\ disk' = written
                  /\ UNCHANGED <<fileHashes, handed, call>>
             ELSE /\ fileHashes' = Append(fileHashes, HashedFile(file, NoString))
                  /\ call' = (IF isDuplicate
                              THEN [fn |-> "reportDuplicate", file |-> file,
                                    exactMatches |-> existingFiles]
                              ELSE call)
                  /\ IF isDuplicate /\ cfg.WatchAutoClean
                     THEN \* handleAutoClean: os.Rename or os.Remove, which fails or not
                          /\ handed' = Append(handed, file)
                          /\ disk' = (IF failed THEN written
                                      ELSE IF cfg.MoveTo # NoString
                                      THEN (written \ {file}) \cup {TargetPath(written, file)}
                                      ELSE written \ {file})
                     ELSE /\ ~failed
                          /\ disk' = written
                          /\ UNCHANGED handed
    /\ UNCHANGED <<ret, model, cfg, pc, duplicates, reportedKeep, undoLog, savedUndo, gi, mi,
                   hashVars>>

\* a file is removed by someone else; of the events, runWatchMode handles only
\* Create and Write, so state.hashMap keeps the entries of the file
WatchRemove ==
    /\ pc = "watch"
    /\ \E file \in disk : disk' = disk \ {file}
    /\ UNCHANGED <<pureVars, cfg, pc, fileHashes, duplicates, reportedKeep, handed,
                   undoLog, savedUndo, gi, mi, hashVars>>

\* "case <-sigChan": runWatchMode returns
WatchStop ==
    /\ pc = "watch"
    /\ pc' = "done"
    /\ UNCHANGED <<pureVars, cfg, fileHashes, duplicates, reportedKeep, procVars, hashVars>>

NextWatch == WatchEvent \/ WatchRemove \/ WatchStop

SpecWatch == InitWatch /\ [][NextWatch]_vars

(***************************************************************************)
(* scanFiles                                                               *)
(***************************************************************************)
\* A directory tree is the set of its files, each the sequence of the names
\* that lead to it from the root; its directories are the proper prefixes.
HiddenDirName == <<".", "g">>
HiddenFileName == <<".", "h">>
SampleFiles ==
    {<<<<"a">>>>, <<HiddenFileName>>, <<<<"s">>, <<"b">>>>, <<<<"s">>, HiddenFileName>>,
     <<HiddenDirName, <<"c">>>>, <<<<"s">>, <<"u">>, <<"e">>>>}

\* the spellings of the root: a temp dir, ".", "..", a path ending in a dot-directory
SampleRoots == {<<"t">>, <<".">>, <<".", ".">>, <<"t", "/", ".", "r">>}

\* the names of the sample trees in the order filepath.Walk visits them (sorted)
NameOrder == <<HiddenDirName, HiddenFileName, <<"a">>, <<"b">>, <<"c">>, <<"e">>, <<"s">>, <<"u">>>>

\* filepath.Join(path, name) as Walk forms the path of an entry: the result is cleaned
WalkJoin(path, name) == IF path = <<".">> THEN name ELSE Join(path, name)

\* the tree has an entry called name in the directory at rel
HasEntry(tree, rel, name) ==
    \E f \in tree : Len(f) > Len(rel) /\ SubSeq(f, 1, Len(rel) + 1) = Append(rel, name)

\* the callback scanFiles gives to filepath.Walk, and Walk's descent below a
\* directory for which the callback returned nil
RECURSIVE walkFn(_, _, _, _, _)
RECURSIVE walkNames(_, _, _, _, _, _)
walkFn(tree, dir, recursive, path, rel) ==
    IF rel \notin tree
    THEN \* info.IsDir()
         IF HasPrefix(Base(path), <<".">>) THEN <<>>
         ELSE IF ~recursive /\ path # dir THEN <<>>
         ELSE walkNames(tree, dir, recursive, path, rel, 1)
    ELSE IF HasPrefix(Base(path), <<".">>) THEN <<>>
         ELSE <<path>>
walkNames(tree, dir, recursive, path, rel, k) ==
    IF k > Len(NameOrder) THEN <<>>
    ELSE (IF HasEntry(tree, rel, NameOrder[k])
          THEN walkFn(tree, dir, recursive, WalkJoin(path, NameOrder[k]),
                      Append(rel, NameOrder[k]))
          ELSE <<>>)
         \o walkNames(tree, dir, recursive, path, rel, k + 1)

\* scanFiles(dir, recursive) on a tree: filepath.Walk starts at dir itself
scanFiles(tree, dir, recursive) == walkFn(tree, dir, recursive, dir, <<>>)

\* the path of the file at rel below dir
RECURSIVE PathBelow(_, _)
PathBelow(dir, rel) ==
    IF rel = <<>> THEN dir ELSE PathBelow(WalkJoin(dir, Head(rel)), Tail(rel))

\* SpecScan: scanFiles on every sample tree, under every spelling of the root
InitScan ==
    /\ cfg = DefaultCfg
    /\ pc = "scan"
    /\ \E dir \in SampleRoots : \E recursive \in BOOLEAN : \E tree \in SUBSET SampleFiles :
          /\ call = [fn |-> "scanFiles", dir |-> dir, recursive |-> recursive, tree |-> tree]
          /\ disk = {PathBelow(dir, rel) : rel \in tree}
    /\ ret = NoCall
    /\ model = NoModel
    /\ fileHashes = <<>>
    /\ duplicates = <<>>
    /\ reportedKeep = <<>>
    /\ NothingProcessed
    /\ HashingOver

\* main: "files, err := scanFiles(cfg.Dir, cfg.Recursive)"
ScanFiles ==
    /\ pc = "scan"
    /\ pc' = "scanned"
    /\ ret' = scanFiles(call.tree, call.dir, call.recursive)
    /\ UNCHANGED <<call, cfg, fileHashes, duplicates, reportedKeep, procVars, hashVars, model>>

SpecScan == InitScan /\ [][ScanFiles]_vars

(***************************************************************************)
(* preprocessImage and its steps (perceptual hashing file), on gray images *)
(* of the size dHash resizes to; a pixel is <<x, y>>, r = g = b = its gray *)
(***************************************************************************)
applyGammaCorrection(px) == [p \in Pixels |-> GammaTable[px[p] + 1]]

\* rCDF[r/256]: how many pixels are at most as bright; "uint8((float64(rCDF[r/256])
\* / float64(pixelCount)) * 255)"
normalizeHistogram(px) ==
    LET pixelCount == Cardinality(Pixels)
        CDF(v) == Cardinality({q \in Pixels : px[q] <= v})
    IN [p \in Pixels |-> (CDF(px[p]) * 255) \div pixelCount]

\* the 3x3 box blur: the mean of the neighbours that lie inside the bounds
applyColorBlur(px) ==
    [p \in Pixels |->
        LET near == {q \in Pixels : /\ q[1] - p[1] \in {0 - 1, 0, 1}
                                    /\ q[2] - p[2] \in {0 - 1, 0, 1}}
            at(i) == <<p[1] + ((i - 1) % 3) - 1, p[2] + ((i - 1) \div 3) - 1>>
            part == [i \in 1..9 |-> IF at(i) \in near THEN px[at(i)] ELSE 0]
        IN SumTo(part, 9) \div Cardinality(near)]

\* preprocessImage with DefaultPreprocessing: gamma, histogram, blur, in this order
preprocessImage(px) == applyColorBlur(normalizeHistogram(applyGammaCorrection(px)))

\* resizeImage(processed, 9, 8) of an image that is 9 by 8: at scale 1 the
\* Catmull-Rom kernel weighs the pixel itself 1 and its neighbours 0, and the
\* gray of r = g = b is that value
resizeImage(px) == px

\* the resized image dHash reads, for the image of the pixels px
Resized(px) == [kind |-> "pixels", px |-> resizeImage(preprocessImage(px))]

\* the base images: bands, checkerboards and ramps in dark, medium and bright grays
BaseGrays == {0, 100, 200, 255}
BaseImages ==
    {img \in [kind : {"left", "top", "checker", "fall"},
              lo : BaseGrays, hi : BaseGrays, k : 1..MaxStep] :
        img.lo < img.hi /\ (img.kind = "fall" => img.hi = 255 /\ img.lo < 255 - 8 * MaxStep)}
PixelsOf(img) == [p \in Pixels |-> Gray(img, p[1], p[2])]

\* the variant of an image with every channel multiplied by 1.3, kept in 0..255
Brighten(px) ==
    [p \in Pixels |-> IF (px[p] * 13) \div 10 > 255 THEN 255 ELSE (px[p] * 13) \div 10]

\* SpecBrightness: dHash of every base image and of its brightened variant
InitBrightness ==
    /\ cfg = [DefaultCfg EXCEPT !.PerceptualMode = TRUE]
    /\ pc = "hash"
    /\ \E img \in BaseImages : call = [fn |-> "image.Decode", img |-> img]
    /\ ret = NoCall
    /\ model = NoModel
    /\ fileHashes = <<>>
    /\ duplicates = <<>>
    /\ reportedKeep = <<>>
    /\ disk = {PathOf(2), PathOf(3)}
    /\ NothingProcessed
    /\ HashingOver

\* computePerceptualHash of the base image, put on its FileHash
HashBaseImage ==
    /\ pc = "hash"
    /\ fileHashes = <<>>
    /\ ret' = dHash(Resized(PixelsOf(call.img)))
    /\ fileHashes' = <<HashedFile(PathOf(2), ret')>>
    /\ UNCHANGED <<call, cfg, pc, duplicates, reportedKeep, procVars, hashVars, model>>

\* computePerceptualHash of the brightened variant, put on its FileHash
HashBrightened ==
    /\ pc = "hash"
    /\ Len(fileHashes) = 1
    /\ ret' = dHash(Resized(Brighten(PixelsOf(call.img))))
    /\ fileHashes' = Append(fileHashes, HashedFile(PathOf(3), ret'))
    /\ pc' = "find"
    /\ UNCHANGED <<call, cfg, duplicates, reportedKeep, procVars, hashVars, model>>

NextBrightness == HashBaseImage \/ HashBrightened

SpecBrightness == InitBrightness /\ [][NextBrightness]_vars

(***************************************************************************)
(* The TUI (tui/tui.go) and processDuplicatesTUI                           *)
(***************************************************************************)
\* tui.ConvertDuplicateGroup as processDuplicatesTUI calls it: the files of a
\* group, none selected (the fields that are only displayed are left out)
ConvertDuplicateGroup(group) ==
    [Files |-> [i \in DOMAIN group.Files |->
                   [Path |-> group.Files[i].Path, Selected |-> FALSE]]]

\* "tuiGroups[i] = tui.ConvertDuplicateGroup(...)" for every group
TuiGroups(dups) == [g \in DOMAIN dups |-> ConvertDuplicateGroup(dups[g])]

\* the files of the group on screen (currentGroup counts from 0)
CurrentFiles == model.groups[model.currentGroup + 1].Files

\* SpecTUI: main found duplicates, is not in dry-run and dispatches to
\* processDuplicatesTUI, which has started tui.Run on the converted groups
InitTUI ==
    /\ \E moveTo \in {NoString, MoveDir} :
          cfg = [DefaultCfg EXCEPT !.TUI = TRUE, !.MoveTo = moveTo]
    /\ pc = "tui"
    /\ \E n \in 0..MaxRunFiles : fileHashes = [i \in 1..n |-> HashedFile(PathOf(i), NoString)]
    /\ duplicates \in findDuplicates(fileHashes, cfg)
    /\ Len(duplicates) > 0
    /\ reportedKeep = <<>>
    /\ disk = {fileHashes[i].Path : i \in DOMAIN fileHashes}
    /\ NothingProcessed
    /\ call = NoCall
    /\ ret = NoCall
    /\ model = New(TuiGroups(duplicates))
    /\ HashingOver

\* Update for a key of keys.Quit (q, esc, ctrl+c): the program ends
KeyQuit ==
    /\ pc = "tui"
    /\ model' = [model EXCEPT !.quitting = TRUE]
    /\ pc' = "ran"
    /\ UNCHANGED <<call, ret, cfg, fileHashes, duplicates, reportedKeep, procVars, hashVars>>

\* Update for keys.Up
KeyUp ==
    /\ pc = "tui"
    /\ model.cursor > 0
    /\ model' = [model EXCEPT !.cursor = @ - 1]
    /\ UNCHANGED <<call, ret, cfg, pc, fileHashes, duplicates, reportedKeep, procVars, hashVars>>

\* Update for keys.Down
KeyDown ==
    /\ pc = "tui"
    /\ model.currentGroup < Len(model.groups)
    /\ model.cursor < Len(CurrentFiles) - 1
    /\ model' = [model EXCEPT !.cursor = @ + 1]
    /\ UNCHANGED <<call, ret, cfg, pc, fileHashes, duplicates, reportedKeep, procVars, hashVars>>

\* Update for keys.Toggle (space): the file under the cursor changes its mark
KeyToggle ==
    /\ pc = "tui"
    /\ model.currentGroup < Len(model.groups)
    /\ model.cursor < Len(CurrentFiles)
    /\ model' = [model EXCEPT
                    !.groups[model.currentGroup + 1].Files[model.cursor + 1].Selected = ~@]
    /\ UNCHANGED <<call, ret, cfg, pc, fileHashes, duplicates, reportedKeep, procVars, hashVars>>

\* Update for keys.ToggleAll: every file of the group gets the mark !allSelected
KeyToggleAll ==
    /\ pc = "tui"
    /\ model.currentGroup < Len(model.groups)
    /\ LET allSelected == \A i \in DOMAIN CurrentFiles : CurrentFiles[i].Selected
       IN model' = [model EXCEPT
                       !.groups[model.currentGroup + 1].Files =
                           [i \in DOMAIN @ |-> [@[i] EXCEPT !.Selected = ~allSelected]]]
    /\ UNCHANGED <<call, ret, cfg, pc, fileHashes, duplicates, reportedKeep, procVars, hashVars>>

\* the paths of the marked files of a group, in the group's order
SelectedPaths(files) ==
    LET marked == SelectSeq(files, LAMBDA file : file.Selected)
    IN [i \in DOMAIN marked |-> marked[i].Path]

\* Update for keys.Confirm (enter): the marked files of the group on screen are
\* appended to filesToDelete and the next group comes up; after the last group
\* confirmed is set and the program ends
KeyConfirm ==
    /\ pc = "tui"
    /\ model.currentGroup < Len(model.groups)
    /\ LET last == model.currentGroup + 1 >= Len(model.groups)
       IN /\ model' = [model EXCEPT
                          !.filesToDelete = @ \o SelectedPaths(CurrentFiles),
                          !.currentGroup = @ + 1,
                          !.cursor = 0,
                          !.confirmed = last]
          /\ pc' = IF last THEN "ran" ELSE pc
    /\ UNCHANGED <<call, ret, cfg, fileHashes, duplicates, reportedKeep, procVars, hashVars>>

\* p.Run() returns an error: tui.Run returns it and so does processDuplicatesTUI
RunFails ==
    /\ pc = "tui"
    /\ pc' = "fatal"
    /\ UNCHANGED <<pureVars, cfg, fileHashes, duplicates, reportedKeep, procVars, hashVars>>

\* tui.Run's result once the program has ended: model.GetFilesToDelete()
GetFilesToDelete == model.filesToDelete

\* "for _, group := range duplicates { for _, f := range group.Files {
\* if f.Path == path": the first member with that path
RECURSIVE FileInfoFrom(_, _, _)
FileInfoFrom(dups, g, path) ==
    LET hits == SelectSeq(dups[g].Files, LAMBDA f : f.Path = path)
    IN IF Len(hits) > 0 THEN hits[1] ELSE FileInfoFrom(dups, g + 1, path)

\* one iteration of "for _, path := range filesToDelete" in processDuplicatesTUI:
\* every path comes from a group, so it is found and handed to os.Rename or
\* os.Remove, which fails or not
ProcessTUIPath ==
    /\ pc = "ran"
    /\ Len(handed) < Len(GetFilesToDelete)
    /\ LET path == GetFilesToDelete[Len(handed) + 1]
           fileInfo == FileInfoFrom(duplicates, 1, path)
       IN /\ handed' = Append(handed, path)
          /\ \E failed \in BOOLEAN :
                IF failed
                THEN UNCHANGED <<disk, undoLog>>
                ELSE IF cfg.MoveTo # NoString
                THEN /\ disk' = (disk \ {path}) \cup {TargetPath(disk, path)}
                     /\ UNCHANGED undoLog
                ELSE /\ disk' = disk \ {path}
                     /\ undoLog' = Append(undoLog, UndoEntry(fileInfo))
    /\ UNCHANGED <<pureVars, cfg, pc, fileHashes, duplicates, reportedKeep, savedUndo, gi, mi,
                   hashVars>>

\* after the loop: the summary line and saveUndoLog, which fails or not
ProcessTUIFinish ==
    /\ pc = "ran"
    /\ Len(handed) = Len(GetFilesToDelete)
    /\ \E saveFailed \in BOOLEAN :
          IF Len(undoLog) > 0 /\ cfg.MoveTo = NoString /\ ~saveFailed
          THEN savedUndo' = undoLog
          ELSE (saveFailed => Len(undoLog) > 0 /\ cfg.MoveTo = NoString)
               /\ UNCHANGED savedUndo
    /\ pc' = "done"
    /\ UNCHANGED <<pureVars, cfg, fileHashes, duplicates, reportedKeep, disk, handed, undoLog,
                   gi, mi, hashVars>>

NextTUI ==
    \/ KeyQuit
    \/ KeyUp
    \/ KeyDown
    \/ KeyToggle
    \/ KeyToggleAll
    \/ KeyConfirm
    \/ RunFails
    \/ ProcessTUIPath
    \/ ProcessTUIFinish

SpecTUI == InitTUI /\ [][NextTUI]_vars

(***************************************************************************)
(* Grouping claims                                                         *)
(***************************************************************************)
Grouped == pc # "find" /\ pc # "hash"
IsPerceptualGroup(g) == g.Files[1].PHash # NoString
IndicesWithDigest(h) == {i \in DOMAIN fileHashes : fileHashes[i].Hash = h}

\* C1: every group findDuplicates returns has at least 2 members, in exact and
\* in hybrid mode, for every list of hashed files.
C1_MinGroupSize ==
    Grouped => \A g \in DOMAIN duplicates : Len(duplicates[g].Files) >= 2

\* hybrid mode returned an exact group and a perceptual group
C1_Witness ==
    /\ Grouped /\ cfg.PerceptualMode
    /\ \E g, k \in DOMAIN duplicates :
          IsPerceptualGroup(duplicates[g]) /\ ~IsPerceptualGroup(duplicates[k])

\* C2: in exact mode the groups are exactly the digest classes of size >= 2:
\* one group per digest shared by two or more files, keyed by that digest,
\* holding all and only the files with that digest, similarity 100.0; no
\* group for a digest held by one file.
C2_ExactPartition ==
    (Grouped /\ ~cfg.PerceptualMode) =>
        /\ \A h \in {fileHashes[i].Hash : i \in DOMAIN fileHashes} :
              Cardinality({g \in DOMAIN duplicates : duplicates[g].Hash = h})
                = (IF Cardinality(IndicesWithDigest(h)) >= 2 THEN 1 ELSE 0)
        /\ \A g \in DOMAIN duplicates :
              LET grp == duplicates[g]
                  class == IndicesWithDigest(grp.Hash)
              IN /\ Cardinality(class) >= 2
                 /\ Len(grp.Files) = Cardinality(class)
                 /\ Range(grp.Files) = {fileHashes[i] : i \in class}
                 /\ grp.Similarity = 100 * SimDenom

\* the spec's example: three files share a digest, a fourth has its own
C2_Witness ==
    /\ Grouped /\ ~cfg.PerceptualMode
    /\ Len(fileHashes) = 4 /\ Len(duplicates) = 1
    /\ Len(duplicates[1].Files) = 3
    /\ fileHashes[3].Hash # duplicates[1].Hash

\* C3: with pairwise distinct paths, no path is in two groups nor twice in one
\* group, in exact and in hybrid mode.
C3_AtMostOneGroup ==
    Grouped =>
        \A g, k \in DOMAIN duplicates :
            \A i \in DOMAIN duplicates[g].Files, j \in DOMAIN duplicates[k].Files :
                duplicates[g].Files[i].Path = duplicates[k].Files[j].Path
                    => (g = k /\ i = j)

\* hybrid mode, three or more fingerprinted files, and a seed's group that
\* took some of them and left others to later seeds
C3_Witness ==
    /\ Grouped /\ cfg.PerceptualMode
    /\ Len(ImageFiles(fileHashes)) >= 3
    /\ \E g \in DOMAIN duplicates :
          /\ IsPerceptualGroup(duplicates[g])
          /\ Len(duplicates[g].Files) >= 2
          /\ Len(duplicates[g].Files) < Len(ImageFiles(fileHashes))

\* C4: in hybrid mode a perceptual group's key is the fingerprint of its first
\* member, and every member's fingerprint is at Hamming distance d from it
\* with 0 <= d <= the similarity threshold.
C4_WithinThresholdOfSeed ==
    (Grouped /\ cfg.PerceptualMode) =>
        \A g \in DOMAIN duplicates :
            IsPerceptualGroup(duplicates[g]) =>
                /\ duplicates[g].Hash = duplicates[g].Files[1].PHash
                /\ \A i \in DOMAIN duplicates[g].Files :
                      LET d == hammingDistance(duplicates[g].Hash,
                                               duplicates[g].Files[i].PHash)
                      IN 0 <= d /\ d <= cfg.SimilarityThreshold

\* a perceptual group with a member exactly at the threshold, which is not 0
C4_Witness ==
    /\ Grouped /\ cfg.PerceptualMode /\ cfg.SimilarityThreshold > 0
    /\ \E g \in DOMAIN duplicates :
          /\ IsPerceptualGroup(duplicates[g])
          /\ \E i \in DOMAIN duplicates[g].Files :
                hammingDistance(duplicates[g].Hash, duplicates[g].Files[i].PHash)
                    = cfg.SimilarityThreshold

(***************************************************************************)
(* Selection claims                                                        *)
(***************************************************************************)
Reported == pc \in {"process", "done", "fatal"}
Member(g, idx) == duplicates[g].Files[idx + 1]
Indices(g) == 0..(Len(duplicates[g].Files) - 1)

\* idx is the first index of group g at which key attains its extreme value
FirstExtreme(g, idx, key(_), wantMax) ==
    /\ idx \in Indices(g)
    /\ \A j \in Indices(g) :
          IF wantMax THEN key(Member(g, j)) <= key(Member(g, idx))
                     ELSE key(Member(g, j)) >= key(Member(g, idx))
    /\ \A j \in Indices(g) : j < idx => key(Member(g, j)) # key(Member(g, idx))

ModTimeOf(fh) == fh.ModTime
SizeOf(fh) == fh.Size

\* C6: for oldest / newest / largest / smallest, selectFileToKeep returns the
\* index of a member with minimum modification time / maximum modification
\* time / maximum size / minimum size, and on a tie the smallest such index.
C6_ExtremeFirstOnTie ==
    Reported =>
        \A g \in DOMAIN reportedKeep :
            LET idx == reportedKeep[g] IN
            /\ ToLower(cfg.KeepCriteria) = Oldest => FirstExtreme(g, idx, ModTimeOf, FALSE)
            /\ ToLower(cfg.KeepCriteria) = Newest => FirstExtreme(g, idx, ModTimeOf, TRUE)
            /\ ToLower(cfg.KeepCriteria) = Largest => FirstExtreme(g, idx, SizeOf, TRUE)
            /\ ToLower(cfg.KeepCriteria) = Smallest => FirstExtreme(g, idx, SizeOf, FALSE)

\* oldest, the minimum time held by the members at indices 1 and 2 but not 0
C6_Witness ==
    /\ Reported /\ cfg.KeepCriteria = Oldest
    /\ \E g \in DOMAIN reportedKeep :
          /\ Len(duplicates[g].Files) = 3
          /\ Member(g, 1).ModTime = Member(g, 2).ModTime
          /\ Member(g, 1).ModTime < Member(g, 0).ModTime
          /\ reportedKeep[g] = 1

PathMatches(g, target) == {j \in Indices(g) : Contains(Member(g, j).Path, target)}
SmallestOf(S) == CHOOSE x \in S : \A y \in S : x <= y
Recognized(criteria) ==
    \/ HasPrefix(criteria, PathPrefix)
    \/ ToLower(criteria) \in {Oldest, Newest, Largest, Smallest}

\* C7: with path:<substring> selectFileToKeep returns the index of the first
\* member whose path contains <substring>, and 0 if none does; with a policy
\* name that is not recognized it returns 0.
C7_PathFirstMatchElseZero ==
    Reported =>
        \A g \in DOMAIN reportedKeep :
            /\ HasPrefix(cfg.KeepCriteria, PathPrefix) =>
                  LET matches == PathMatches(g, TrimPrefix(cfg.KeepCriteria, PathPrefix))
                  IN reportedKeep[g] = (IF matches = {} THEN 0 ELSE SmallestOf(matches))
            /\ ~Recognized(cfg.KeepCriteria) => reportedKeep[g] = 0

\* path:<substring> matched a member that is not the first, and index 0 does
\* not match
C7_Witness ==
    /\ Reported /\ HasPrefix(cfg.KeepCriteria, PathPrefix)
    /\ \E g \in DOMAIN reportedKeep :
          /\ reportedKeep[g] > 0
          /\ 0 \notin PathMatches(g, TrimPrefix(cfg.KeepCriteria, PathPrefix))
          /\ Cardinality(PathMatches(g, TrimPrefix(cfg.KeepCriteria, PathPrefix))) >= 2

(***************************************************************************)
(* Disposition claims                                                      *)
(***************************************************************************)
\* processDuplicates, not interactive, went through all groups and returned
ProcessedAll ==
    pc = "done" /\ ~cfg.DryRun /\ ~cfg.Interactive /\ Len(duplicates) > 0
SelectedIdx(g) == selectFileToKeep(duplicates[g], cfg)
TimesHanded(path) == Cardinality({k \in DOMAIN handed : handed[k] = path})
Logged(path) == \E k \in DOMAIN undoLog : undoLog[k].Path = path

\* C5 as stated: after a non-interactive processDuplicates (delete or move-to),
\* in each group every member except the one selectFileToKeep selects has
\* been deleted or moved, and the selected member has not.
C5_AllButSelectedRemoved ==
    ProcessedAll =>
        \A g \in DOMAIN duplicates : \A i \in Indices(g) :
            IF i = SelectedIdx(g)
            THEN Member(g, i).Path \in disk /\ TimesHanded(Member(g, i).Path) = 0
            ELSE Member(g, i).Path \notin disk

\* C5 as amended: after a non-interactive processDuplicates that returned
\* without error, in each group every member except the selected one has been
\* handed exactly once to os.Remove / os.Rename and is gone from its path
\* exactly if that call succeeded (it is then in the undo log); the selected
\* member has never been handed and is still in place.
C5_AllButSelectedHanded ==
    ProcessedAll =>
        \A g \in DOMAIN duplicates : \A i \in Indices(g) :
            IF i = SelectedIdx(g)
            THEN Member(g, i).Path \in disk /\ TimesHanded(Member(g, i).Path) = 0
            ELSE /\ TimesHanded(Member(g, i).Path) = 1
                 /\ Member(g, i).Path \notin disk <=> Logged(Member(g, i).Path)

\* a group of three whose middle member is selected; of the two others one
\* was removed and one could not be
C5_Witness ==
    /\ ProcessedAll
    /\ \E g \in DOMAIN duplicates :
          /\ Len(duplicates[g].Files) = 3
          /\ SelectedIdx(g) = 1
          /\ Member(g, 0).Path \in disk
          /\ Member(g, 2).Path \notin disk

Returned == pc \notin {"collect", "errors"}
RecordsOf(path) == Cardinality({i \in DOMAIN fileHashes : fileHashes[i].Path = path})
ErrorsFor(path) == Cardinality({i \in DOMAIN errLog : errLog[i] = path})
Hashed(path, how) == path \in DOMAIN outcome /\ outcome[path] = how

\* C9: for every list of paths, every worker count N >= 1 and every
\* scheduling, computeHashes terminates and returns exactly one record for
\* each path whose hashing succeeded, and no other record.
C9_TerminatesWithAllHashed ==
    /\ <>Returned
    /\ [](Returned =>
            /\ \A p \in Range(filesToHash) :
                  RecordsOf(p) = (IF Hashed(p, "ok") THEN 1 ELSE 0)
            /\ \A i \in DOMAIN fileHashes : fileHashes[i].Path \in Range(filesToHash))

\* two workers, two paths, one record each, returned in the opposite order
C9_Witness ==
    /\ Returned /\ cfg.Workers = 2 /\ Len(filesToHash) = 2
    /\ Len(fileHashes) = 2
    /\ fileHashes[1].Path = filesToHash[2]
    /\ fileHashes[2].Path = filesToHash[1]

\* C10: a file whose hashing fails is dropped from the results and exactly one
\* error naming its path is delivered; it neither stops nor blocks the others:
\* when computeHashes returns every input path has been hashed, and every
\* path that did not fail is in the results once.
C10_FailureIsLocal ==
    Returned =>
        \A p \in Range(filesToHash) :
            /\ p \in DOMAIN outcome
            /\ Hashed(p, "err") => (RecordsOf(p) = 0 /\ ErrorsFor(p) = 1)
            /\ Hashed(p, "ok") => (RecordsOf(p) = 1 /\ ErrorsFor(p) = 0)

\* one worker: the first path failed, the path after it was hashed and returned
C10_Witness ==
    /\ Returned /\ cfg.Workers = 1 /\ Len(filesToHash) = 2
    /\ Hashed(filesToHash[1], "err")
    /\ Hashed(filesToHash[2], "ok")
    /\ Len(fileHashes) = 1 /\ fileHashes[1].Path = filesToHash[2]
    /\ errLog = <<filesToHash[1]>>

(***************************************************************************)
(* The barrier between hashing and grouping                                *)
(***************************************************************************)
WorkersDone == \A w \in Workers : wpc[w] = "exit"
NothingInFlight == resultChan = <<>> /\ resultClosed /\ fileChan = <<>>

\* C11: findDuplicates is entered, and has run, only when every worker has
\* ended and every result has been collected: the list it is given holds the
\* record of every file hashed successfully.
C11_GroupingAfterJoin ==
    pc \in {"find", "report"} =>
        /\ WorkersDone /\ wg = 0
        /\ NothingInFlight
        /\ \A p \in Range(filesToHash) : Hashed(p, "ok") => RecordsOf(p) = 1

\* findDuplicates has run on the two records two workers produced
C11_Witness ==
    /\ pc = "report" /\ cfg.Workers = 2
    /\ Len(filesToHash) = 2 /\ Len(fileHashes) = 2

(***************************************************************************)
(* State shared between workers                                            *)
(***************************************************************************)
\* worker w is about to run main.go:459-466, which increments *hashedCount and
\* reads (and may write) *lastProgressUpdate
AboutToReadProgress(w) == wpc[w] = "progress"
WrittenByOtherWorker(w) == lastProgressUpdate \notin {0, w}

\* C12: no variable written by one worker is read or written by another
\* worker: a worker never reads a lastProgressUpdate that another worker wrote.
C12_NoSharedWorkerState ==
    \A w \in Workers : AboutToReadProgress(w) => ~WrittenByOtherWorker(w)

(***************************************************************************)
(* Fingerprinting failures                                                 *)
(***************************************************************************)
RecordsAt(path) == {i \in DOMAIN fileHashes : fileHashes[i].Path = path}
GroupsWith(path) ==
    {g \in DOMAIN duplicates : \E k \in DOMAIN duplicates[g].Files :
                                  duplicates[g].Files[k].Path = path}
Unfingerprinted == {i \in DOMAIN fileHashes : fileHashes[i].PHash = NoString}

\* C13: in perceptual mode a file with an image extension whose
\* fingerprinting failed has one record, with its content digest and an empty
\* fingerprint; grouping puts it with exactly the other records of the same
\* digest that have no fingerprint, in an exact group.
C13_UndecodedIsRegular ==
    \A p \in phashErr :
        /\ cfg.PerceptualMode /\ isImageFile(p)
        /\ Returned =>
              /\ Cardinality(RecordsAt(p)) = 1
              /\ \A i \in RecordsAt(p) : /\ fileHashes[i].Hash = ContentDigest(p)
                                          /\ fileHashes[i].PHash = NoString
        /\ pc = "report" =>
              LET same == {fileHashes[i].Path : i \in {j \in Unfingerprinted :
                                   fileHashes[j].Hash = ContentDigest(p)}}
              IN /\ Cardinality(GroupsWith(p)) = (IF Cardinality(same) >= 2 THEN 1 ELSE 0)
                 /\ \A g \in GroupsWith(p) :
                       /\ Range([k \in DOMAIN duplicates[g].Files |->
                                    duplicates[g].Files[k].Path]) = same
                       /\ duplicates[g].Similarity = ExactSimilarity
                       /\ duplicates[g].Hash = ContentDigest(p)

\* b.png could not be decoded and is grouped with b, which has the same bytes
C13_Witness ==
    /\ pc = "report"
    /\ <<"b", ".", "p", "n", "g">> \in phashErr
    /\ \E g \in DOMAIN duplicates :
          {duplicates[g].Files[k].Path : k \in DOMAIN duplicates[g].Files}
              = {<<"b", ".", "p", "n", "g">>, <<"b">>}

(***************************************************************************)
(* Algorithm names                                                         *)
(***************************************************************************)
\* C14: an empty or unknown -hash name selects sha256, an unknown -phash-algo
\* name selects dHash, and neither selection gives an error; the known names
\* select their own algorithm.
C14_UnknownAlgorithmFallsBack ==
    /\ call.fn = "getHasher" =>
          /\ ret \in {"md5.New", "sha1.New", "sha256.New"}
          /\ cfg.HashAlgorithm \in UnknownHashNames => ret = "sha256.New"
          /\ cfg.HashAlgorithm \in {<<"m", "d", "5">>, <<"M", "D", "5">>} => ret = "md5.New"
    /\ call.fn = "computePerceptualHash" =>
          /\ ~ret.err
          /\ call.algorithm \in UnknownPHashNames => ret.fn = "dHash"
          /\ call.algorithm \in {<<"A", "H", "A", "S", "H">>, <<"a", "v", "e", "r", "a", "g", "e">>}
                => ret.fn = "aHash"

\* the empty -hash name gave sha256 / the unknown name xhash gave dHash
C14_Witness ==
    \/ /\ call.fn = "getHasher" /\ cfg.HashAlgorithm = <<>> /\ ret = "sha256.New"
       /\ cfg.PHashAlgorithm = <<"x", "h", "a", "s", "h">>
    \/ /\ call.fn = "computePerceptualHash" /\ call.algorithm = <<"x", "h", "a", "s", "h">>
       /\ ret.fn = "dHash" /\ cfg.HashAlgorithm = <<>>

(***************************************************************************)
(* hammingDistance                                                         *)
(***************************************************************************)
Hash1 == fileHashes[1].PHash
Hash2 == fileHashes[2].PHash
Differing == {i \in 1..Len(Hash1) : Hash1[i] # Hash2[i]}

\* C15: for fingerprints x, y of equal length hammingDistance(x, y) is the
\* number of positions at which they differ, so it is 0 for x = y, the same
\* for (y, x), and between 0 and len(x); the three known examples hold.
C15_HammingIsDifferenceCount ==
    (call.fn = "hammingDistance" /\ Len(Hash1) = Len(Hash2)) =>
        /\ ret = Cardinality(Differing)
        /\ ret >= 0 /\ ret <= Len(Hash1)
        /\ Hash1 = Hash2 => ret = 0
        /\ ret = hammingDistance(Hash2, Hash1)
        /\ (Hash1 = <<"0", "0", "0", "0">> /\ Hash2 = <<"1", "1", "1", "1">>) => ret = 4
        /\ (Hash1 = <<"0", "1", "0", "1">> /\ Hash2 = <<"1", "0", "1", "0">>) => ret = 4
        /\ (Hash1 = <<"0", "1", "1", "0">> /\ Hash2 = <<"0", "1", "1", "0">>) => ret = 0

\* hammingDistance("0101", "1010") returned 4
C15_Witness ==
    /\ call.fn = "hammingDistance"
    /\ Hash1 = <<"0", "1", "0", "1">> /\ Hash2 = <<"1", "0", "1", "0">>
    /\ ret = 4

\* C16: hammingDistance returns -1 exactly when the lengths differ, and
\* isSimilarImage, the grouping sweep and the compare command judge two
\* fingerprints similar iff 0 <= hammingDistance <= threshold.
C16_SimilarIffWithinThreshold ==
    LET dist == hammingDistance(Hash1, Hash2)
    IN /\ call.fn = "hammingDistance" => (ret = 0 - 1 <=> Len(Hash1) # Len(Hash2))
       /\ call.fn \in {"isSimilarImage", "findPerceptualDuplicates", "compareImagesCLI"} =>
             (ret <=> (dist >= 0 /\ dist <= cfg.SimilarityThreshold))

(***************************************************************************)
(* Similarity score                                                        *)
(***************************************************************************)
\* C17: the similarity of a group is 100.0 if it is an exact-match group and
\* strictly below 100.0 if it is a perceptual-match group, for every
\* threshold from 0 on.
C17_PerceptualScoreBelowExact ==
    (Grouped /\ pc = "report" /\ cfg.SimilarityThreshold >= 0) =>
        \A g \in DOMAIN duplicates :
            IF cfg.PerceptualMode /\ IsPerceptualGroup(duplicates[g])
            THEN duplicates[g].Similarity < ExactSimilarity
            ELSE duplicates[g].Similarity = ExactSimilarity

(***************************************************************************)
(* Fingerprint format                                                      *)
(***************************************************************************)
\* C18: a perceptual fingerprint present on a hashed file is exactly 64
\* characters long and each character is '0' or '1', whichever of dHash,
\* aHash and pHash computed it, for every decodable image.
C18_FingerprintIs64Bits ==
    \A i \in DOMAIN fileHashes :
        fileHashes[i].PHash # NoString =>
            /\ Len(fileHashes[i].PHash) = 64
            /\ \A k \in DOMAIN fileHashes[i].PHash : fileHashes[i].PHash[k] \in Bits

\* dHash of an image with a bright band at the left: one bit set in each row
C18_Witness ==
    /\ call.fn = "dHash" /\ call.img.kind = "left" /\ call.img.k = 2
    /\ call.img.hi > call.img.lo
    /\ Len(fileHashes) = 1
    /\ {k \in DOMAIN fileHashes[1].PHash : fileHashes[1].PHash[k] = "1"}
          = {HashSide * y + 2 : y \in 0..(HashSide - 1)}

(***************************************************************************)
(* Dry run                                                                 *)
(***************************************************************************)
\* C19: with -dry-run no file is deleted or moved, whichever other options
\* are set: no path is ever handed to os.Remove or os.Rename.
C19_DryRunChangesNothing ==
    cfg.DryRun => handed = <<>>

(***************************************************************************)
(* Undo log                                                                *)
(***************************************************************************)
\* the files processDuplicates deleted for good, and those the saved undo log names
Deleted == IF cfg.MoveTo = NoString THEN Range(handed) \ disk ELSE {}
SavedPaths == {savedUndo[i].Path : i \in DOMAIN savedUndo}

\* C20: whenever processDuplicates has returned, every file it permanently
\* deleted is recorded in the saved undo log, also when the user answered y
\* to some prompts and then q.
C20_DeletesAreLogged ==
    pc = "done" => Deleted \subseteq SavedPaths

(***************************************************************************)
(* Scanning                                                                *)
(***************************************************************************)
IsHiddenName(name) == HasPrefix(name, <<".">>)
\* the files beneath the root that are not hidden and not inside a hidden
\* subdirectory; without recursion, those directly in the root
VisibleBeneath(tree, recursive) ==
    {rel \in tree : /\ \A k \in DOMAIN rel : ~IsHiddenName(rel[k])
                    /\ recursive \/ Len(rel) = 1}

\* C21: whatever the spelling of the root, scanFiles returns exactly the files
\* beneath it that are not hidden and not inside a hidden subdirectory (with
\* recursive = false, those of them directly in the root).
C21_ScanReturnsVisibleFiles ==
    pc = "scanned" =>
        Range(ret) = {PathBelow(call.dir, rel) :
                         rel \in VisibleBeneath(call.tree, call.recursive)}

(***************************************************************************)
(* Content digests                                                         *)
(***************************************************************************)
HashRecords == Range(fileHashes) \cup Range(resultChan)

\* C22: the content digest of a file depends only on its bytes: it is the digest
\* a new hasher gives for these bytes, so two files with the same bytes get the
\* same digest, whatever their paths, the worker that hashed them and the files
\* that worker hashed before.
C22_DigestDependsOnBytesOnly ==
    /\ \A r \in HashRecords : r.Hash = Sum(FileBytes(r.Path))
    /\ \A r1, r2 \in HashRecords :
          FileBytes(r1.Path) = FileBytes(r2.Path) => r1.Hash = r2.Hash

\* one worker has hashed two files of the same bytes, one after the other
C22_Witness ==
    /\ cfg.Workers = 1
    /\ Len(fileHashes) = 2
    /\ fileHashes[1].Path # fileHashes[2].Path
    /\ FileBytes(fileHashes[1].Path) = FileBytes(fileHashes[2].Path)
    /\ fileHashes[1].Hash = fileHashes[2].Hash

SweepImages == ImageFiles(fileHashes)
SweepNear(imgs, i, j) ==
    LET d == hammingDistance(imgs[i].PHash, imgs[j].PHash)
    IN 0 <= d /\ d <= cfg.SimilarityThreshold

\* the seeds among the first n fingerprinted files: a file is a seed iff it is
\* within the threshold of no earlier seed
RECURSIVE SweepSeeds(_, _)
SweepSeeds(imgs, n) ==
    IF n = 0 THEN {}
    ELSE LET earlier == SweepSeeds(imgs, n - 1)
         IN IF \E s \in earlier : SweepNear(imgs, s, n) THEN earlier ELSE earlier \cup {n}

\* the seeds a file could go with, and the seed it goes with: the earliest of them
SeedsFor(imgs, seeds, j) == {s \in seeds : s = j \/ (s < j /\ SweepNear(imgs, s, j))}
SeedOf(imgs, seeds, j) ==
    LET cands == SeedsFor(imgs, seeds, j)
    IN CHOOSE s \in cands : \A t \in cands : s <= t

\* the groups of two or more, in seed order, each in input order
FirstFitGroups(imgs) ==
    LET indices == [j \in 1..Len(imgs) |-> j]
        seeds == SweepSeeds(imgs, Len(imgs))
        owner == [j \in 1..Len(imgs) |-> SeedOf(imgs, seeds, j)]
        members == [s \in seeds |-> SelectSeq(indices, LAMBDA j : owner[j] = s)]
        groupSeeds == SelectSeq(indices, LAMBDA s : s \in seeds /\ Len(members[s]) > 1)
    IN [g \in DOMAIN groupSeeds |->
           [m \in DOMAIN members[groupSeeds[g]] |-> imgs[members[groupSeeds[g]][m]]]]
PerceptualGroups == SelectSeq(duplicates, IsPerceptualGroup)

\* C24: in hybrid mode the fingerprinted files are clustered as by the seed-based
\* sweep over the input order: a file is a seed iff it is within the threshold of
\* no earlier seed, every other file is in the group of the earliest seed it is
\* within the threshold of (its distance to other members plays no part), no file
\* is in two groups, and the groups of two or more are reported in seed order.
C24_SeedSweepClustering ==
    (Grouped /\ cfg.PerceptualMode) =>
        [g \in DOMAIN PerceptualGroups |-> PerceptualGroups[g].Files]
            = FirstFitGroups(SweepImages)

\* a file within the threshold of two seeds is in the group of the earlier one
C24_Witness ==
    /\ Grouped /\ cfg.PerceptualMode
    /\ LET imgs == SweepImages
           seeds == SweepSeeds(imgs, Len(imgs))
       IN \E j \in DOMAIN imgs :
             /\ Cardinality(SeedsFor(imgs, seeds, j)) >= 2
             /\ j \notin seeds
             /\ \E g \in DOMAIN PerceptualGroups :
                   /\ PerceptualGroups[g].Files[1] = imgs[SeedOf(imgs, seeds, j)]
                   /\ \E m \in DOMAIN PerceptualGroups[g].Files :
                         PerceptualGroups[g].Files[m] = imgs[j]

(***************************************************************************)
(* aHash                                                                   *)
(***************************************************************************)
Luminance(i) == Gray(call.img, ColOf(i), RowOf(i))
AllLuminances == [i \in 1..(HashSide * HashSide) |-> Luminance(i)]

\* C25: in aHash, for every 8x8 grid of luminances in 0..255, bit i of the
\* fingerprint is 1 iff pixel i's luminance is at least the mean of all 64,
\* that is iff 64 * p_i >= the sum of all p.
C25_BitIffAtLeastMean ==
    (call.fn = "aHash" /\ \A i \in DOMAIN AllLuminances : AllLuminances[i] \in 0..255) =>
        \A i \in DOMAIN ret :
            ret[i] = "1" <=>
                HashSide * HashSide * Luminance(i)
                    >= SumTo(AllLuminances, HashSide * HashSide)

(***************************************************************************)
(* Watch mode: what is cleaned and what is reported                        *)
(***************************************************************************)
AutoCleaned == handed'[Len(handed')]
OtherCopies(file) == {q \in disk \ {file} : FileBytes(q) = FileBytes(file)}

\* C26: in watch mode with auto-clean, a file is deleted or moved only if, at that
\* moment, another file with the same content exists on disk at a different path.
C26_AutoCleanLeavesACopy ==
    [][(cfg.WatchMode /\ Len(handed') > Len(handed) /\ AutoCleaned \notin disk')
           => OtherCopies(AutoCleaned) # {}]_vars

\* C27: in watch mode a file is reported as a duplicate only if a tracked file
\* with a different path has the same content digest: never as a duplicate of itself.
C27_NotADuplicateOfItself ==
    (cfg.WatchMode /\ call.fn = "reportDuplicate") =>
        \E m \in DOMAIN call.exactMatches :
            /\ call.exactMatches[m].Path # call.file
            /\ call.exactMatches[m].Hash = ContentDigest(call.file)

(***************************************************************************)
(* TUI claims                                                              *)
(***************************************************************************)
\* C28: in the TUI, when the user quits (q / esc / ctrl+c) before confirming
\* the last group, no file is deleted or moved: a path is handed to os.Remove
\* or os.Rename only when the session ended through the confirmation of every
\* group.
C28_QuitDeletesNothing ==
    cfg.TUI => /\ model.quitting => handed = <<>>
               /\ handed # <<>> => model.confirmed

(***************************************************************************)
(* Arrival order claims                                                    *)
(***************************************************************************)
\* the paths processDuplicates is to remove: every member of every group but
\* the one selectFileToKeep names
RemovalSet(dups, c) ==
    UNION {{dups[g].Files[i + 1].Path :
               i \in {k \in 0..(Len(dups[g].Files) - 1) :
                         IsCandidate(k, selectFileToKeep(dups[g], c))}} :
           g \in DOMAIN dups}

\* the groups as sets of paths
GroupSets(dups) ==
    {{dups[g].Files[i].Path : i \in DOMAIN dups[g].Files} : g \in DOMAIN dups}

\* the results computeHashes returned, as they are when they arrive in the
\* order of the paths given to it (the order a single worker produces)
InInputOrder(results, paths) ==
    LET got == {results[i].Path : i \in DOMAIN results}
        picks == SelectSeq(paths, LAMBDA p : p \in got)
    IN [i \in DOMAIN picks |-> results[CHOOSE k \in DOMAIN results : results[k].Path = picks[i]]]

\* the policy has one choice in every group, whatever the order of the members:
\* one member strictly ahead of all others on the key, or one path that matches
KeepIsUnique(files, c) ==
    IF HasPrefix(c.KeepCriteria, PathPrefix)
    THEN Cardinality({i \in DOMAIN files :
                         Contains(files[i].Path, TrimPrefix(c.KeepCriteria, PathPrefix))}) = 1
    ELSE /\ ToLower(c.KeepCriteria) \in {Oldest, Newest, Largest, Smallest}
         /\ \E i \in DOMAIN files : \A j \in DOMAIN files \ {i} :
               Replaces(ToLower(c.KeepCriteria), files[i], files[j])

InOneGroup(dups, fh1, fh2) ==
    \E g \in DOMAIN dups :
        /\ \E i \in DOMAIN dups[g].Files : dups[g].Files[i].Path = fh1.Path
        /\ \E i \in DOMAIN dups[g].Files : dups[g].Files[i].Path = fh2.Path

\* C30: enabling perceptual mode never loses an exact duplicate: for every list
\* of hashed files, any two files with equal content digest (which exact mode
\* puts in one group) are members of one common group in hybrid mode.
C30_HybridKeepsExactDuplicates ==
    (pc = "report" /\ cfg.PerceptualMode) =>
        \A i, j \in DOMAIN fileHashes :
            (i # j /\ fileHashes[i].Hash = fileHashes[j].Hash)
                => InOneGroup(duplicates, fileHashes[i], fileHashes[j])

====
